---- MODULE Spec2Model ----
(***************************************************************************)
(* A model of the PySP scenario-tree worker (ScenarioTreeManagerWorkerPyro)*)
(* and of the SPSolver facade.                                             *)
(*                                                                         *)
(*   SpecMPI / FairSpecMPI  several workers run _init over one tree with   *)
(*                          collective communication (blocking Split).    *)
(*   SpecInit               one worker, any WorkerInit, repeated _init.    *)
(*   SpecClose              workers run _init and then _close_impl.        *)
(*   SpecInvoke             invoke_function / invoke_method.               *)
(*   SpecSolve              SPSolver.solve with scoped option overrides.   *)
(***************************************************************************)
EXTENDS Integers, Sequences, FiniteSets, TLC

VARIABLES
  worker,     \* worker[w]: the attributes of worker object w
  call,       \* call[w]: where w stands in its _init call, and how the last one ended
  group,      \* group[c]: the processes of communicator c
  next_comm,  \* the next fresh communicator handle
  sense,      \* sense[s]: the objective sense scenario s's instance declares
  closing,    \* closing[w]: record of w's _close_impl calls
  inv,        \* the invoke_function / invoke_method worker and its last call
  solver,     \* the SPSolver object, its option heap and its solve call stack
  factory,    \* SPSolverFactory: the registry of solver types and the last call
  sampling    \* the arguments of a call of lhs and how it ended

vars == <<worker, call, group, next_comm, sense, closing, inv, solver, factory, sampling>>

----------------------------------------------------------------------------
(* Bounds *)

NumWorkers == 2
MaxInitCalls == 2
MaxCloseCalls == 2

Workers == 1..NumWorkers

----------------------------------------------------------------------------
(* Small helpers for Python values *)

None == "None"

EmptyDict == [k \in {} |-> None]

\* d[k] = v on a Python dict
Put(d, k, v) == [x \in (DOMAIN d) \cup {k} |-> IF x = k THEN v ELSE d[x]]

Range(s) == {s[i] : i \in DOMAIN s}

RECURSIVE Concat(_)
Concat(ss) == IF ss = <<>> THEN <<>> ELSE Head(ss) \o Concat(Tail(ss))

----------------------------------------------------------------------------
(* The uncompressed scenario tree: four stages, the root R, the interior   *)
(* nodes A, B and A1, A2, B1, and one leaf node per scenario.              *)

Scenarios == {"s1", "s2", "s3"}

ScenarioOrder == <<"s1", "s2", "s3">>

Stages == << <<"R">>, <<"A", "B">>, <<"A1", "A2", "B1">>, <<"L1", "L2", "L3">> >>

Parent == [n \in {"A", "B", "A1", "A2", "B1", "L1", "L2", "L3"} |->
             CASE n \in {"A", "B"} -> "R"
               [] n \in {"A1", "A2"} -> "A"
               [] n = "B1" -> "B"
               [] n = "L1" -> "A1"
               [] n = "L2" -> "A2"
               [] n = "L3" -> "B1"]

LeafOf == [s \in Scenarios |-> CASE s = "s1" -> "L1" [] s = "s2" -> "L2" [] s = "s3" -> "L3"]

RootNode == Stages[1][1]

\* uncompressed_scenario_tree.stages[1:-1], node by node in iteration order
InteriorNodes == Concat(SubSeq(Stages, 2, Len(Stages) - 1))

RECURSIVE Ancestors(_)
Ancestors(n) == IF n = RootNode THEN {n} ELSE {n} \cup Ancestors(Parent[n])

\* the scenarios of list l, in order, each once
RECURSIVE Unique(_)
Unique(l) ==
  IF l = <<>> THEN <<>>
  ELSE LET r == Unique(SubSeq(l, 1, Len(l) - 1))
           x == l[Len(l)]
       IN IF x \in Range(r) THEN r ELSE Append(r, x)

\* the probability of each scenario in the uncompressed tree, in percent
Probability == [s \in Scenarios |-> CASE s = "s1" -> 50 [] s = "s2" -> 30 [] s = "s3" -> 20]

RECURSIVE TotalProbability(_)
TotalProbability(S) ==
  IF S = {} THEN 0
  ELSE LET s == CHOOSE x \in S : TRUE IN Probability[s] + TotalProbability(S \ {s})

NoTree ==
  [built |-> FALSE, scenarios |-> <<>>, nodes |-> {}, bundles |-> EmptyDict,
   probability |-> [s \in {} |-> 0]]

\* ScenarioTree.make_compressed(scenarios, normalize): the sub-tree of the
\* nodes on a path from the root to one of the scenarios; the scenarios keep
\* their probability unless normalize is set, which rescales the
\* probabilities to sum to one (100 percent) over the sub-tree
make_compressed(scenarios_to_construct, normalize) ==
  [built |-> TRUE,
   scenarios |-> Unique(scenarios_to_construct),
   nodes |-> UNION {Ancestors(LeafOf[s]) : s \in Range(scenarios_to_construct)},
   bundles |-> EmptyDict,
   probability |->
     [s \in Range(scenarios_to_construct) |->
        IF normalize
          THEN (100 * Probability[s]) \div TotalProbability(Range(scenarios_to_construct))
          ELSE Probability[s]]]

contains_node(tree, n) == n \in tree.nodes

contains_bundle(tree, b) == b \in DOMAIN tree.bundles

----------------------------------------------------------------------------
(* Communicators.  A handle is a number; group[c] is the set of processes  *)
(* of communicator c.  COMM_NULL stands for "no communicator" (None).      *)

COMM_NULL == 0

RootComm == 1

JoinKey == "0"

UNDEFINED == "MPI.UNDEFINED"

----------------------------------------------------------------------------
(* WorkerInit values.  names_is_list models type(names) in (list, tuple);  *)
(* data.kind is "None", "dict" (data.map is the dict) or "other"; an entry *)
(* of the dict is a list of scenario names (is_list) or something else.    *)

DataNone == [kind |-> "None", map |-> EmptyDict]

DataOther == [kind |-> "other", map |-> EmptyDict]

DataDict(m) == [kind |-> "dict", map |-> m]

ListEntry(l) == [is_list |-> TRUE, scen |-> l]

NonListEntry == [is_list |-> FALSE, scen |-> <<>>]

WorkerInit(t, l, ok, d) == [type_ |-> t, names |-> l, names_is_list |-> ok, data |-> d]

ScenariosInit(l) == WorkerInit("Scenarios", l, TRUE, DataNone)

BundlesInit(l, m) == WorkerInit("Bundles", l, TRUE, DataDict(m))

NoWorkerInit == WorkerInit("None", <<>>, FALSE, DataNone)

----------------------------------------------------------------------------
(* The worker object *)

\* ScenarioTreeManagerWorkerPyro.__init__
NewWorker ==
  [_modules_imported |-> None,
   _server_name |-> None,
   _worker_name |-> None,
   MPI |-> None,
   mpi_comm_tree |-> [n \in {} |-> COMM_NULL],
   _uncompressed_scenario_tree |-> None,
   _scenario_tree |-> NoTree,
   _instances |-> {},
   _objective_sense |-> None]

\* a worker's position: pc is "idle" (outside _init) or "Split" (blocked in
\* the collective Split for InteriorNodes[idx] on comm with key); outcome is
\* how the latest _init ended; worker_init, base_implemented, n_init,
\* n_built and splits record the calls made (the latest WorkerInit, whether
\* a base class implemented _init in the latest call, the number of _init
\* calls, the number of times the compressed tree was built, the Split
\* calls issued by the latest _init)
NewCall ==
  [pc |-> "idle", idx |-> 0, comm |-> COMM_NULL, key |-> JoinKey,
   outcome |-> "none", worker_init |-> NoWorkerInit, base_implemented |-> FALSE,
   n_init |-> 0, n_built |-> 0, splits |-> <<>>]

\* _init, lines 136-162: the exception the validation of worker_init raises
\* ("" when it raises none); a type_ that is neither Scenarios nor Bundles
\* takes neither branch
RECURSIVE BundleEntriesError(_, _)
BundleEntriesError(names, data) ==
  IF names = <<>> THEN ""
  ELSE IF Head(names) \notin DOMAIN data.map THEN "KeyError"
  ELSE IF ~data.map[Head(names)].is_list THEN "AssertionError"
  ELSE BundleEntriesError(Tail(names), data)

ValidationError(worker_init) ==
  IF worker_init.type_ = "Scenarios" THEN
    IF ~worker_init.names_is_list THEN "AssertionError"
    ELSE IF Len(worker_init.names) = 0 THEN "AssertionError"
    ELSE IF worker_init.data.kind # "None" THEN "AssertionError"
    ELSE ""
  ELSE IF worker_init.type_ # "Bundles" THEN ""
  ELSE
    IF ~worker_init.names_is_list THEN "AssertionError"
    ELSE IF worker_init.data.kind # "dict" THEN "AssertionError"
    ELSE IF Len(worker_init.names) = 0 THEN "AssertionError"
    ELSE BundleEntriesError(worker_init.names, worker_init.data)

scenarios_to_construct_All(worker_init) == ScenarioOrder

\* _init, lines 136-162: the flattened list of scenario names
RECURSIVE BundleScenarios(_, _)
BundleScenarios(names, data) ==
  IF names = <<>> THEN <<>>
  ELSE data.map[Head(names)].scen \o BundleScenarios(Tail(names), data)

scenarios_to_construct(worker_init) ==
  IF worker_init.type_ = "Scenarios" THEN worker_init.names
  ELSE IF worker_init.type_ = "Bundles"
    THEN BundleScenarios(worker_init.names, worker_init.data)
  ELSE <<>>

AddBundles_Unchecked(tree, names, data) ==
  [tree |-> [tree EXCEPT !.bundles = [b \in Range(names) |-> data.map[b].scen]],
   exc |-> ""]

\* _init, lines 194-198: add the bundles one by one; a name already in the
\* tree fails the assertion with the earlier bundles added
RECURSIVE AddBundles(_, _, _)
AddBundles(tree, names, data) ==
  IF names = <<>> THEN [tree |-> tree, exc |-> ""]
  ELSE IF contains_bundle(tree, Head(names)) THEN [tree |-> tree, exc |-> "AssertionError"]
  ELSE AddBundles([tree EXCEPT !.bundles = Put(tree.bundles, Head(names),
                                               data.map[Head(names)].scen)],
                  Tail(names), data)

SenseMismatch_Unchecked(tree, objective_sense) == FALSE

\* _init, lines 188-189: some scenario of the compressed tree declares
\* another objective sense than the one recorded
SenseMismatch(tree, objective_sense) ==
  \E s \in Range(tree.scenarios) : sense[s] # objective_sense

normalize_True == TRUE

\* _init, line 169: normalize=False
normalize == FALSE

\* _init, lines 129-207: everything up to the loop over the interior stages.
\* The result is the worker object as the code leaves it and the exception
\* raised ("" for none).
InitBody(self, a) ==
  LET s1 == [self EXCEPT !._modules_imported = a.modules_imported,
                         !._server_name = a.server_name,
                         !._uncompressed_scenario_tree = a.uncompressed_scenario_tree,
                         !._worker_name = a.worker_name]
      wi == a.worker_init
      verr == ValidationError(wi)
      scen == scenarios_to_construct(wi)
      tree == make_compressed(scen, normalize)
      s2 == [s1 EXCEPT !._scenario_tree = tree, !._instances = Range(tree.scenarios)]
      s3 == [s2 EXCEPT !._objective_sense = sense[tree.scenarios[1]]]
      bun == IF wi.type_ = "Bundles" THEN AddBundles(tree, wi.names, wi.data)
             ELSE [tree |-> tree, exc |-> ""]
      s4 == [s3 EXCEPT !._scenario_tree = bun.tree]
      s5 == [s4 EXCEPT !.MPI = a.MPI,
                       !.mpi_comm_tree = Put(s4.mpi_comm_tree, RootNode, a.root_comm)]
  IN IF verr # "" THEN [self |-> s1, exc |-> verr]
     ELSE IF tree.scenarios = <<>> THEN [self |-> s2, exc |-> "IndexError"]
     ELSE IF SenseMismatch(tree, s3._objective_sense)
       THEN [self |-> s3, exc |-> "AssertionError"]
     ELSE IF bun.exc # "" THEN [self |-> s4, exc |-> bun.exc]
     ELSE IF a.MPI = None
       THEN [self |-> s4, exc |-> IF a.root_comm = COMM_NULL THEN "" ELSE "AssertionError"]
     ELSE IF a.root_comm = COMM_NULL THEN [self |-> s4, exc |-> "AssertionError"]
     ELSE [self |-> s5, exc |-> ""]

\* _init, lines 211-219: the first node at position i or later of the
\* interior stages for which the worker calls Split (0 when there is none)
SplitsAt_NoExclude(self, j) ==
  contains_node(self._scenario_tree, InteriorNodes[j])

SplitsAt_NoRootExclude(self, j) ==
  \/ contains_node(self._scenario_tree, InteriorNodes[j])
  \/ /\ Parent[InteriorNodes[j]] # RootNode
     /\ Parent[InteriorNodes[j]] \in DOMAIN self.mpi_comm_tree

SplitsAt_Always(self, j) == TRUE

SplitsAt(self, j) ==
  \/ contains_node(self._scenario_tree, InteriorNodes[j])
  \/ Parent[InteriorNodes[j]] \in DOMAIN self.mpi_comm_tree

NextSplit(self, i) ==
  LET js == {j \in i..Len(InteriorNodes) : SplitsAt(self, j)}
  IN IF js = {} THEN 0 ELSE CHOOSE j \in js : \A k \in js : j <= k

SplitKey_AlwaysJoin(self, node) == JoinKey

\* the key the worker passes to Split for a node
SplitKey(self, node) ==
  IF contains_node(self._scenario_tree, node) THEN JoinKey ELSE UNDEFINED

\* _init, lines 211-219: run the loop from position i up to the next Split
\* call, where the worker blocks, or to the end of _init
RunLoop(self, c, i) ==
  LET j == NextSplit(self, i)
      node == InteriorNodes[j]
      pcomm == self.mpi_comm_tree[Parent[node]]
  IN IF j = 0 THEN [c EXCEPT !.pc = "idle", !.outcome = "ok"]
     ELSE IF Parent[node] \notin DOMAIN self.mpi_comm_tree
       THEN [c EXCEPT !.pc = "idle", !.outcome = "KeyError"]
     ELSE [c EXCEPT !.pc = "Split", !.idx = j, !.comm = pcomm,
                    !.key = SplitKey(self, node),
                    !.splits = Append(@, [node |-> node, comm |-> pcomm,
                                          key |-> SplitKey(self, node)])]

BaseCheck_Swallowed(base_implemented) == FALSE

\* _init, lines 121-127: "check to make sure no base class has implemented
\* _init": the call fails ("developer error") when super()._init() returns
BaseCheckFails(base_implemented) == base_implemented

\* ScenarioTreeManagerWorkerPyro._init up to its first blocking call.
\* base_implemented: some base class implements _init (super()._init()
\* returns instead of raising NotImplementedError).
_init(w, a, base_implemented) ==
  /\ call[w].pc = "idle"
  /\ \E c0 \in {[call[w] EXCEPT !.n_init = @ + 1, !.worker_init = a.worker_init,
                                !.base_implemented = base_implemented,
                                !.splits = <<>>]} :
       IF BaseCheckFails(base_implemented)
         THEN /\ call' = [call EXCEPT ![w] = [c0 EXCEPT !.outcome = "AssertionError"]]
              /\ UNCHANGED worker
         ELSE \E b \in {InitBody(worker[w], a)} :
              \E c1 \in {[c0 EXCEPT !.n_built = IF ValidationError(a.worker_init) = ""
                                                  THEN @ + 1 ELSE @]} :
                /\ worker' = [worker EXCEPT ![w] = b.self]
                /\ call' = [call EXCEPT ![w] =
                     IF b.exc # "" THEN [c1 EXCEPT !.outcome = b.exc]
                     ELSE IF a.MPI = None THEN [c1 EXCEPT !.outcome = "ok"]
                     ELSE RunLoop(b.self, c1, 1)]
  /\ UNCHANGED <<group, next_comm, sense, closing, inv, solver, factory, sampling>>

\* The collective Split on communicator c completes: every process of c is
\* blocked in a Split on c.  The processes that passed the join key get the
\* new communicator and store it under their node; each process then runs
\* on to its next Split or to the end of _init.
SplitComplete(c) ==
  /\ c \in DOMAIN group
  /\ group[c] # {}
  /\ \A m \in group[c] : call[m].pc = "Split" /\ call[m].comm = c
  /\ LET joiners == {m \in group[c] : call[m].key = JoinKey}
         Stored(m) == IF m \in joiners
                        THEN [worker[m] EXCEPT !.mpi_comm_tree =
                                Put(@, InteriorNodes[call[m].idx], next_comm)]
                        ELSE worker[m]
     IN /\ worker' = [m \in Workers |-> IF m \in group[c] THEN Stored(m) ELSE worker[m]]
        /\ call' = [m \in Workers |->
                      IF m \in group[c] THEN RunLoop(Stored(m), call[m], call[m].idx + 1)
                      ELSE call[m]]
        /\ group' = IF joiners = {} THEN group ELSE Put(group, next_comm, joiners)
        /\ next_comm' = IF joiners = {} THEN next_comm ELSE next_comm + 1
  /\ UNCHANGED <<sense, closing, inv, solver, factory, sampling>>

\* ScenarioTreeManagerWorkerPyro._close_impl.  super_ok: the superclass
\* _close_impl returns; options: "fail" when collecting the unused options
\* raises, else "none" or "some" (options set but never read).  freed counts
\* the Free calls per communicator handle; warned: the warning was printed.
\* Free on a handle that was freed before is erroneous for the MPI library:
\* it returns (refree_ok) or raises, and then the loop ends at the first
\* such handle; visited names the nodes whose handle the loop has reached
\* by then, the dictionary being visited in no particular order.
NewClosing ==
  [n_close |-> 0, outcome |-> "none", freed |-> [c \in {} |-> 0], warned |-> FALSE]

FreeAll_Once(freed, comm_tree) ==
  LET held == {comm_tree[n] : n \in DOMAIN comm_tree}
  IN [c \in (DOMAIN freed) \cup held |-> IF c \in DOMAIN freed THEN freed[c] ELSE 1]

FreeAll(freed, comm_tree) ==
  LET held == {comm_tree[n] : n \in DOMAIN comm_tree}
  IN [c \in (DOMAIN freed) \cup held |->
        (IF c \in DOMAIN freed THEN freed[c] ELSE 0)
        + Cardinality({n \in DOMAIN comm_tree : comm_tree[n] = c})]

AlreadyFreed(cl, comm_tree) ==
  {n \in DOMAIN comm_tree :
     comm_tree[n] \in DOMAIN cl.freed /\ cl.freed[comm_tree[n]] > 0}

\* the sets of nodes the loop can have visited when Free raises: one node
\* whose handle was freed before, and any of those whose handle was not
Visits(cl, comm_tree) ==
  {N \in SUBSET DOMAIN comm_tree : Cardinality(N \cap AlreadyFreed(cl, comm_tree)) = 1}

CloseBody(cl, self, super_ok, options, refree_ok, visited) ==
  IF ~super_ok THEN [cl EXCEPT !.n_close = @ + 1, !.outcome = "SuperError"]
  ELSE IF options = "fail" THEN [cl EXCEPT !.n_close = @ + 1, !.outcome = "OptionsError"]
  ELSE IF ~refree_ok /\ AlreadyFreed(cl, self.mpi_comm_tree) # {}
    THEN [cl EXCEPT !.n_close = @ + 1, !.outcome = "MPIError",
                    !.freed = FreeAll(@, [n \in visited |-> self.mpi_comm_tree[n]])]
  ELSE [cl EXCEPT !.n_close = @ + 1, !.outcome = "ok",
                  !.freed = FreeAll(@, self.mpi_comm_tree),
                  !.warned = (options = "some")]

_close_impl(w, super_ok, options, refree_ok) ==
  /\ call[w].pc = "idle"
  /\ closing[w].n_close < MaxCloseCalls
  /\ \E visited \in (IF ~refree_ok /\ AlreadyFreed(closing[w], worker[w].mpi_comm_tree) # {}
                        THEN Visits(closing[w], worker[w].mpi_comm_tree) ELSE {{}}) :
       closing' = [closing EXCEPT ![w] = CloseBody(closing[w], worker[w], super_ok, options,
                                                    refree_ok, visited)]
  /\ UNCHANGED <<worker, call, group, next_comm, sense, inv, solver, factory, sampling>>

----------------------------------------------------------------------------
(* Remote invocation: invoke_function, invoke_method and the *_impl        *)
(* methods, called on worker 1.  inv.last records the latest call.         *)

MaxInvokes == 2

Single == "Single"

InvocationTypes == {Single, "PerScenario"}

\* a Python value returned to the caller: value is the raw value; when keyed,
\* map is the dict {worker name: value}; async: it is wrapped in AsyncResult
Raw(v) == [async |-> FALSE, keyed |-> FALSE, map |-> [k \in {} |-> None], value |-> v]

Keyed(k, v) == [async |-> FALSE, keyed |-> TRUE, map |-> (k :> v), value |-> None]

AsyncResult(r) == [r EXCEPT !.async = TRUE]

\* the arguments of a method that takes none of the model's
NoArgs == [name |-> None, data |-> None]

\* the mapping _collect_scenario_tree_data_for_client builds, empty
NoData == [nodes |-> EmptyDict, scenarios |-> EmptyDict]

\* op .. oneway are the call and its arguments; n_exec counts the executions
\* of the target, target_value is what the target returned and worker_name
\* the worker's _worker_name when the call ended
NoCall ==
  [op |-> "none", name |-> None, module_name |-> None, invocation_type |-> Single,
   async |-> FALSE, oneway |-> FALSE, n_exec |-> 0, target_value |-> None,
   worker_name |-> None, status |-> "none", exc |-> "", result |-> Raw(None),
   method_args |-> NoArgs, data |-> NoData]

NewInvoker == [n_calls |-> 0, last |-> NoCall]

Returned(self, c, r) ==
  [c EXCEPT !.status = "returned", !.result = r, !.worker_name = self._worker_name]

Raised(self, c, e) ==
  [c EXCEPT !.status = "raised", !.exc = e, !.worker_name = self._worker_name]

\* the methods of the worker that the model can invoke
MethodNames == {"assign_data", "_collect_scenario_tree_data_for_client"}

\* an attribute of a tree node or of a scenario, by reference or copied
\* into a tuple
Attribute(owner, name, as) == [of |-> owner, name |-> name, as |-> as]

\* lines 86-94: this_node_data
NodeData(node_name) ==
  [_variable_ids |-> Attribute(node_name, "_variable_ids", "reference"),
   _standard_variable_ids |-> Attribute(node_name, "_standard_variable_ids", "reference"),
   _variable_indices |-> Attribute(node_name, "_variable_indices", "reference"),
   _integer |-> Attribute(node_name, "_integer", "tuple"),
   _binary |-> Attribute(node_name, "_binary", "tuple"),
   _semicontinuous |-> Attribute(node_name, "_semicontinuous", "tuple")]

\* lines 102-105: this_scenario_data
ScenarioData(scenario_name) ==
  [_objective_name |-> Attribute(scenario_name, "_objective_name", "reference"),
   _objective_sense |-> sense[scenario_name]]

RequestedNodes_All(self, tree_object_names) == self._scenario_tree.nodes

\* line 84: the names the loop over tree_object_names['nodes'] visits
RequestedNodes(self, tree_object_names) == Range(tree_object_names.nodes)

\* _collect_scenario_tree_data_for_client, lines 80-107.  The tree is None
\* before _init (AttributeError at the first lookup); get_node and
\* get_scenario raise KeyError for a name the worker's tree does not hold.
_collect_scenario_tree_data_for_client(self, tree_object_names) ==
  LET nodes == RequestedNodes(self, tree_object_names)
      scenarios == Range(tree_object_names.scenarios)
      tree == self._scenario_tree
  IN  IF ~tree.built /\ nodes \cup scenarios # {}
        THEN [exc |-> "AttributeError", data |-> NoData]
      ELSE IF ~(nodes \subseteq tree.nodes /\ scenarios \subseteq Range(tree.scenarios))
        THEN [exc |-> "KeyError", data |-> NoData]
      ELSE [exc |-> "",
            data |-> [nodes |-> [n \in nodes |-> NodeData(n)],
                      scenarios |-> [sc \in scenarios |-> ScenarioData(sc)]]]

CallMethod_Default(self, method_name, method_args) ==
  IF method_name = "assign_data"
    THEN [self |-> [self EXCEPT ![method_args.name] = method_args.data],
          value |-> None, exc |-> "", n_exec |-> 1, data |-> NoData]
  ELSE IF method_name = "_collect_scenario_tree_data_for_client"
    THEN LET r == _collect_scenario_tree_data_for_client(self, method_args)
         IN  [self |-> self, value |-> (IF r.exc = "" THEN "tree_data" ELSE None),
              exc |-> r.exc, n_exec |-> 1, data |-> r.data]
  ELSE IF method_name \in DOMAIN self
    THEN [self |-> self, value |-> None, exc |-> "TypeError", n_exec |-> 0, data |-> NoData]
  ELSE [self |-> self, value |-> None, exc |-> "", n_exec |-> 0, data |-> NoData]

\* getattr(self, method_name)(*method_args): the worker afterwards, the value
\* returned, the exception raised and the number of executions of a method
CallMethod(self, method_name, method_args) ==
  IF method_name = "assign_data"
    THEN [self |-> [self EXCEPT ![method_args.name] = method_args.data],
          value |-> None, exc |-> "", n_exec |-> 1, data |-> NoData]
  ELSE IF method_name = "_collect_scenario_tree_data_for_client"
    THEN LET r == _collect_scenario_tree_data_for_client(self, method_args)
         IN  [self |-> self, value |-> (IF r.exc = "" THEN "tree_data" ELSE None),
              exc |-> r.exc, n_exec |-> 1, data |-> r.data]
  ELSE IF method_name \in DOMAIN self
    THEN [self |-> self, value |-> None, exc |-> "TypeError", n_exec |-> 0, data |-> NoData]
  ELSE [self |-> self, value |-> None, exc |-> "AttributeError", n_exec |-> 0,
        data |-> NoData]

\* _invoke_function_by_worker (the general invocation helper): the function
\* is applied once for Single and once per scenario otherwise
invoke_function_by_worker(self, function, invocation_type) ==
  IF invocation_type = Single
    THEN [value |-> "f()", n_exec |-> 1]
    ELSE [value |-> "f() per scenario", n_exec |-> Len(self._scenario_tree.scenarios)]

\* lines 343 and 384: "async oneway calls do not make sense"
FlagsConflict_Unchecked(async, oneway) == FALSE

FlagsConflict(async, oneway) == async /\ oneway

\* _map_deprecated_invocation_type, called at line 345, is neither defined
\* nor imported by the module (lines 15-27): the call raises NameError
MapperDefined == FALSE

\* lines 347-356: the two invalid shapes of (function, module_name)
ShapeError(function, module_name) ==
  IF ~function.is_string THEN module_name # None ELSE module_name = None

\* _invoke_function_impl, lines 239-288
InvokeFunctionImplBody(self, c, function, module_name, invocation_type, dill_available) ==
  IF module_name = None /\ ~dill_available THEN Raised(self, c, "AssertionError")
  ELSE IF module_name = None /\ function.is_string THEN Raised(self, c, "UnpicklingError")
  ELSE LET r == invoke_function_by_worker(self, function, invocation_type)
       IN Returned(self, [c EXCEPT !.n_exec = r.n_exec, !.target_value = r.value],
                   Raw(r.value))

\* invoke_function, lines 330-370.  The result of _invoke_function_impl is
\* not assigned (line 358), so every later read of the local result (lines
\* 366, 368, 370) raises UnboundLocalError.
InvokeFunctionBody(self, c, function, module_name, invocation_type, async, oneway, dill_available) ==
  IF FlagsConflict(async, oneway) THEN Raised(self, c, "ValueError")
  ELSE IF ~MapperDefined THEN Raised(self, c, "NameError")
  ELSE IF ShapeError(function, module_name) THEN Raised(self, c, "ValueError")
  ELSE LET r == InvokeFunctionImplBody(self, c, function, module_name,
                                       invocation_type, dill_available)
       IN IF r.status = "raised" THEN r
          ELSE Raised(self, [r EXCEPT !.result = Raw(None)], "UnboundLocalError")

Wrap_Never(self, result, async, oneway) == Raw(result)

\* invoke_method, lines 391-396: the value handed back for the method's result
Wrap(self, result, async, oneway) ==
  LET r == IF ~oneway THEN Keyed(self._worker_name, result) ELSE Raw(result)
  IN IF async THEN AsyncResult(r) ELSE r

\* invoke_method, lines 372-396
InvokeMethodBody(self, c, method_name, method_args, async, oneway) ==
  IF FlagsConflict(async, oneway)
    THEN [self |-> self, call |-> Raised(self, c, "ValueError")]
  ELSE LET m == CallMethod(self, method_name, method_args)
           c1 == [c EXCEPT !.n_exec = m.n_exec, !.target_value = m.value,
                           !.method_args = method_args, !.data = m.data]
       IN IF m.exc # "" THEN [self |-> m.self, call |-> Raised(m.self, c1, m.exc)]
          ELSE [self |-> m.self,
                call |-> Returned(m.self, c1, Wrap(m.self, m.value, async, oneway))]

\* _invoke_method_impl, lines 290-310
InvokeMethodImplBody(self, c, method_name, method_args) ==
  LET m == CallMethod(self, method_name, method_args)
      c1 == [c EXCEPT !.n_exec = m.n_exec, !.target_value = m.value,
                      !.method_args = method_args, !.data = m.data]
  IN IF m.exc # "" THEN [self |-> m.self, call |-> Raised(m.self, c1, m.exc)]
     ELSE [self |-> m.self, call |-> Returned(m.self, c1, Raw(m.value))]

CallRecord(op, name, module_name, invocation_type, async, oneway) ==
  [NoCall EXCEPT !.op = op, !.name = name, !.module_name = module_name,
                 !.invocation_type = invocation_type, !.async = async, !.oneway = oneway]

CanInvoke == call[1].pc = "idle" /\ inv.n_calls < MaxInvokes

invoke_function(function, module_name, invocation_type, async, oneway, dill_available) ==
  /\ CanInvoke
  /\ inv' = [n_calls |-> inv.n_calls + 1,
             last |-> InvokeFunctionBody(worker[1],
                        CallRecord("invoke_function", function.name, module_name,
                                   invocation_type, async, oneway),
                        function, module_name, invocation_type, async, oneway,
                        dill_available)]
  /\ UNCHANGED <<worker, call, group, next_comm, sense, closing, solver, factory, sampling>>

_invoke_function_impl(function, module_name, invocation_type, dill_available) ==
  /\ CanInvoke
  /\ inv' = [n_calls |-> inv.n_calls + 1,
             last |-> InvokeFunctionImplBody(worker[1],
                        CallRecord("_invoke_function_impl", function.name, module_name,
                                   invocation_type, FALSE, FALSE),
                        function, module_name, invocation_type, dill_available)]
  /\ UNCHANGED <<worker, call, group, next_comm, sense, closing, solver, factory, sampling>>

invoke_method(method_name, method_args, async, oneway) ==
  /\ CanInvoke
  /\ \E r \in {InvokeMethodBody(worker[1],
                 CallRecord("invoke_method", method_name, None, Single, async, oneway),
                 method_name, method_args, async, oneway)} :
       /\ inv' = [n_calls |-> inv.n_calls + 1, last |-> r.call]
       /\ worker' = [worker EXCEPT ![1] = r.self]
  /\ UNCHANGED <<call, group, next_comm, sense, closing, solver, factory, sampling>>

_invoke_method_impl(method_name, method_args) ==
  /\ CanInvoke
  /\ \E r \in {InvokeMethodImplBody(worker[1],
                 CallRecord("_invoke_method_impl", method_name, None, Single, FALSE, FALSE),
                 method_name, method_args)} :
       /\ inv' = [n_calls |-> inv.n_calls + 1, last |-> r.call]
       /\ worker' = [worker EXCEPT ![1] = r.self]
  /\ UNCHANGED <<call, group, next_comm, sense, closing, solver, factory, sampling>>

----------------------------------------------------------------------------
(* SPSolver.  Options objects, and the mappings callers pass as per-call   *)
(* options, live in solver.heap (an object is named by its position, a      *)
(* frame's tmp_id names the caller's mapping); solver._solver_options names *)
(* the object self.options returns.  solver.stack holds one frame per solve *)
(* call in progress: a frame is pushed when solve reaches _solve_impl (line *)
(* 130) and popped when the strategy returns or raises; the strategy may    *)
(* write an option through self.options and may call solve again.           *)

MaxSolveCalls == 2
MaxDepth == 2

OptionKeys == {"k1", "k2"}

NoOptions == [k \in {} |-> None]

\* the reference model's components; "e" is an Expression
Components == {"x", "y", "e"}

is_expression_Never(c) == FALSE

is_expression(c) == c = "e"

NewComponent == [value |-> None, stale |-> TRUE]

NoXhat == [n \in {} |-> NoOptions]

NoResults ==
  [has_xhat |-> FALSE, xhat |-> NoXhat, solver_name |-> "undefined", pysp_time |-> "undefined"]

NoSolve ==
  [status |-> "none", exc |-> "", failed_in |-> "", tmp_given |-> FALSE,
   tmp_options |-> NoOptions, tmp_id |-> 0, reference_model |-> FALSE, depth |-> 0,
   before_id |-> 0, before |-> NoOptions, seen |-> NoOptions, results |-> NoResults,
   solution |-> NoXhat, nested |-> 0]

\* SPSolver.__init__
NewSolver ==
  [heap |-> <<NoOptions>>, _solver_options |-> 1, _name |-> None, stack |-> <<>>,
   reference_model |-> [c \in Components |-> NewComponent],
   n_calls |-> 0, n_done |-> 0, last |-> NoSolve]

Layered_PersistentWins(orig, tmp_options) ==
  [k \in (DOMAIN orig) \cup (DOMAIN tmp_options) |->
     IF k \in DOMAIN orig THEN orig[k] ELSE tmp_options[k]]

\* solve, lines 81-85: a fresh Options object holding the persistent options
\* with the per-call options written over them
Layered(orig, tmp_options) ==
  [k \in (DOMAIN orig) \cup (DOMAIN tmp_options) |->
     IF k \in DOMAIN tmp_options THEN tmp_options[k] ELSE orig[k]]

Restore_Missing(f, current) == current

Restore_Persistent(f, current) == IF f.tmp_given THEN 1 ELSE current

\* solve, lines 135-137: the finally clause
Restore(f, current) == IF f.tmp_given THEN f.orig_options ELSE current

\* solve, lines 141-148: the values of the solution written to the reference
\* model, expressions skipped
RECURSIVE WriteSolution(_, _, _)
WriteSolution(model, solution, ids) ==
  IF ids = {} THEN model
  ELSE LET id == CHOOSE i \in ids : TRUE
           m == IF is_expression(id) THEN model
                ELSE [model EXCEPT ![id] = [value |-> solution[id], stale |-> FALSE]]
       IN WriteSolution(m, solution, ids \ {id})

RECURSIVE WriteXhat(_, _, _)
WriteXhat(model, xhat, names) ==
  IF names = {} THEN model
  ELSE LET n == CHOOSE i \in names : TRUE
       IN WriteXhat(WriteSolution(model, xhat[n], DOMAIN xhat[n]), xhat, names \ {n})

Resolvable(xhat) == \A n \in DOMAIN xhat : DOMAIN xhat[n] \subseteq Components

\* the frame of a solve call and what the call knew at entry; nested counts
\* the calls of solve with per-call options the strategy of the call has made
Frame(tmp_given, tmp_options, is_mapping, reference_model) ==
  [orig_options |-> solver._solver_options, tmp_given |-> tmp_given,
   tmp_options |-> tmp_options,
   tmp_id |-> IF tmp_given /\ is_mapping THEN Len(solver.heap) + 1 ELSE 0,
   reference_model |-> reference_model,
   before |-> solver.heap[solver._solver_options], wrote |-> FALSE, nested |-> 0]

Finished(f, depth, status, exc, failed_in, seen, results) ==
  [status |-> status, exc |-> exc, failed_in |-> failed_in, tmp_given |-> f.tmp_given,
   tmp_options |-> f.tmp_options, tmp_id |-> f.tmp_id,
   reference_model |-> f.reference_model, depth |-> depth,
   before_id |-> f.orig_options, before |-> f.before,
   seen |-> seen, results |-> results, solution |-> NoXhat, nested |-> f.nested]

\* solve, lines 75-128: the options are layered and the statistics computed;
\* when the statistics fail the finally clause runs and the call ends, else
\* the strategy _solve_impl is entered.  Per-call options that are no mapping
\* (is_mapping false) fail at line 84, outside the try statement: a fresh
\* object holding the copy of the persistent options stays installed.  The
\* mapping the caller passes is an object of its own, which lines 84-85 read.
solve(tmp_given, tmp_options, is_mapping, reference_model, stats_ok) ==
  /\ solver.n_calls < MaxSolveCalls
  /\ Len(solver.stack) < MaxDepth
  /\ \E f \in {Frame(tmp_given, tmp_options, is_mapping, reference_model)} :
     \E heap \in {IF ~tmp_given THEN solver.heap
                  ELSE IF ~is_mapping THEN Append(solver.heap, f.before)
                  ELSE Append(Append(solver.heap, tmp_options),
                              Layered(f.before, tmp_options))} :
     \E installed \in {IF tmp_given THEN Len(heap) ELSE solver._solver_options} :
     \E stack \in {IF tmp_given /\ solver.stack # <<>>
                     THEN [solver.stack EXCEPT ![Len(solver.stack)].nested = @ + 1]
                     ELSE solver.stack} :
       solver' =
         IF tmp_given /\ ~is_mapping
           THEN [solver EXCEPT !.heap = heap, !._solver_options = installed,
                               !.stack = stack,
                               !.n_calls = @ + 1, !.n_done = @ + 1,
                               !.last = Finished(f, Len(solver.stack) + 1, "raised",
                                                 "AttributeError", "options",
                                                 heap[installed], NoResults)]
         ELSE IF stats_ok
           THEN [solver EXCEPT !.heap = heap, !._solver_options = installed,
                               !.stack = Append(stack, f), !.n_calls = @ + 1]
           ELSE [solver EXCEPT !.heap = heap,
                               !._solver_options = Restore(f, installed),
                               !.stack = stack,
                               !.n_calls = @ + 1, !.n_done = @ + 1,
                               !.last = Finished(f, Len(solver.stack) + 1, "raised",
                                                 "AttributeError", "statistics",
                                                 heap[installed], NoResults)]
  /\ UNCHANGED <<worker, call, group, next_comm, sense, closing, inv, factory, sampling>>

Top == solver.stack[Len(solver.stack)]

Pop(st) == SubSeq(st, 1, Len(st) - 1)

\* the strategy writes an option through self.options
strategy_sets_option(k, v) ==
  /\ solver.stack # <<>>
  /\ ~Top.wrote
  /\ solver' = [solver EXCEPT
                  !.heap[solver._solver_options] = Put(@, k, v),
                  !.stack[Len(solver.stack)].wrote = TRUE]
  /\ UNCHANGED <<worker, call, group, next_comm, sense, closing, inv, factory, sampling>>

solve_impl_raises_Swallowed ==
  /\ solver.stack # <<>>
  /\ solver' = [solver EXCEPT
                  !._solver_options = Restore(Top, @),
                  !.stack = Pop(@), !.n_done = @ + 1,
                  !.last = Finished(Top, Len(solver.stack), "returned", "", "_solve_impl",
                                    solver.heap[solver._solver_options], NoResults)]
  /\ UNCHANGED <<worker, call, group, next_comm, sense, closing, inv, factory, sampling>>

\* _solve_impl raises: solve, lines 130 and 135-137
solve_impl_raises ==
  /\ solver.stack # <<>>
  /\ solver' = [solver EXCEPT
                  !._solver_options = Restore(Top, @),
                  !.stack = Pop(@), !.n_done = @ + 1,
                  !.last = Finished(Top, Len(solver.stack), "raised",
                                    "NotImplementedError", "_solve_impl",
                                    solver.heap[solver._solver_options], NoResults)]
  /\ UNCHANGED <<worker, call, group, next_comm, sense, closing, inv, factory, sampling>>

\* _solve_impl returns results: solve, lines 130-152
solve_impl_returns(has_xhat, xhat) ==
  /\ solver.stack # <<>>
  /\ \E results \in {[has_xhat |-> has_xhat, xhat |-> xhat,
                      solver_name |-> solver._name, pysp_time |-> "stop - start"]} :
     \E seen \in {solver.heap[solver._solver_options]} :
       solver' =
         IF ~Top.reference_model
           THEN [solver EXCEPT
                   !._solver_options = Restore(Top, @),
                   !.stack = Pop(@), !.n_done = @ + 1,
                   !.last = Finished(Top, Len(solver.stack), "returned", "", "",
                                     seen, results)]
         ELSE IF ~has_xhat \/ ~Resolvable(xhat)
           THEN [solver EXCEPT
                   !._solver_options = Restore(Top, @),
                   !.stack = Pop(@), !.n_done = @ + 1,
                   !.last = Finished(Top, Len(solver.stack), "raised", "AttributeError",
                                     "reference_model", seen, NoResults)]
         ELSE [solver EXCEPT
                 !._solver_options = Restore(Top, @),
                 !.stack = Pop(@), !.n_done = @ + 1,
                 !.reference_model = WriteXhat(@, xhat, DOMAIN xhat),
                 !.last = [Finished(Top, Len(solver.stack), "returned", "", "", seen,
                                    [results EXCEPT !.has_xhat = FALSE, !.xhat = NoXhat])
                             EXCEPT !.solution = xhat]]
  /\ UNCHANGED <<worker, call, group, next_comm, sense, closing, inv, factory, sampling>>

----------------------------------------------------------------------------
(* SPSolverFactory.  A solver type is a record: its class name and whether  *)
(* it is derived from SPSolver.  factory._registered_solvers is the        *)
(* registry; factory.first remembers, for every name ever registered, the  *)
(* type of its first registration; factory.last records the latest call.   *)

MaxFactoryOps == 3

SolverNames == {"ddsip", "ef"}

SolverTypes ==
  {[name |-> "DDSIPSolver", is_spsolver |-> TRUE],
   [name |-> "EFSolver", is_spsolver |-> TRUE],
   [name |-> "object", is_spsolver |-> FALSE]}

NoType == [name |-> None, is_spsolver |-> FALSE]

NoInstance == [created |-> FALSE, type_ |-> NoType, config |-> NoOptions]

NoFactoryCall ==
  [op |-> "none", name |-> None, type_ |-> NoType, status |-> "none", exc |-> "",
   result |-> NoInstance]

\* line 168: SPSolverFactory._registered_solvers = {}
NewFactory ==
  [_registered_solvers |-> [n \in {} |-> NoType], first |-> [n \in {} |-> NoType],
   n_ops |-> 0, last |-> NoFactoryCall]

issubclass(type_) == type_.is_spsolver

Registered_Only(registry, name, type_) == [n \in {name} |-> type_]

\* line 175: SPSolverFactory._registered_solvers[name] = type_
Registered(registry, name, type_) == Put(registry, name, type_)

\* _register_solver, lines 170-175
_register_solver(name, type_) ==
  /\ factory.n_ops < MaxFactoryOps
  /\ factory' =
       IF ~issubclass(type_)
         THEN [factory EXCEPT
                 !.n_ops = @ + 1,
                 !.last = [op |-> "register", name |-> name, type_ |-> type_,
                           status |-> "raised", exc |-> "TypeError", result |-> NoInstance]]
         ELSE [factory EXCEPT
                 !._registered_solvers = Registered(@, name, type_),
                 !.first = IF name \in DOMAIN @ THEN @ ELSE Put(@, name, type_),
                 !.n_ops = @ + 1,
                 !.last = [op |-> "register", name |-> name, type_ |-> type_,
                           status |-> "returned", exc |-> "", result |-> NoInstance]]
  /\ UNCHANGED <<worker, call, group, next_comm, sense, closing, inv, solver, sampling>>

Lookup_Default(registry, solver_name) ==
  IF solver_name \in DOMAIN registry THEN registry[solver_name]
  ELSE [name |-> "SPSolver", is_spsolver |-> TRUE]

\* SPSolverFactory, lines 158-159 and 164-167: the registered type, NoType
\* for a name that is not registered
Lookup(registry, solver_name) ==
  IF solver_name \in DOMAIN registry THEN registry[solver_name] ELSE NoType

\* SPSolverFactory, lines 157-167.  type_ok: type_.register_options(), the
\* assignments config[key] = val and the constructor type_(config), which
\* belong to the registered type, return.
SPSolverFactory(solver_name, kwds, type_ok) ==
  /\ factory.n_ops < MaxFactoryOps
  /\ \E type_ \in {Lookup(factory._registered_solvers, solver_name)} :
       factory' =
         IF type_ = NoType
           THEN [factory EXCEPT
                   !.n_ops = @ + 1,
                   !.last = [op |-> "create", name |-> solver_name, type_ |-> NoType,
                             status |-> "raised", exc |-> "ValueError",
                             result |-> NoInstance]]
         ELSE IF ~type_ok
           THEN [factory EXCEPT
                   !.n_ops = @ + 1,
                   !.last = [op |-> "create", name |-> solver_name, type_ |-> type_,
                             status |-> "raised", exc |-> "TypeError",
                             result |-> NoInstance]]
         ELSE [factory EXCEPT
                 !.n_ops = @ + 1,
                 !.last = [op |-> "create", name |-> solver_name, type_ |-> type_,
                           status |-> "returned", exc |-> "",
                           result |-> [created |-> TRUE, type_ |-> type_,
                                       config |-> kwds]]]
  /\ UNCHANGED <<worker, call, group, next_comm, sense, closing, inv, solver, sampling>>

----------------------------------------------------------------------------
(* lhs: Latin hypercube sampling (pyomo/contrib/sensitivity_toolbox/lhs.py) *)

MaxSamples == 2

\* The values random.uniform(a, b) can return are a + r * (b - a) for the
\* fractions r = 0, 1/Resolution, ..., 1 (b is included: rounding can return it)
Resolution == 2

\* A probability is a numerator over the denominator nSamples * Resolution.

\* the argument nSamples: its Python type and its value
NSamples(type, value) == [type |-> type, value |-> value]

\* a frozen scipy.stats distribution, as stats.norm(5, 0.1) and
\* stats.bernoulli(0.74) of the tests
Frozen(name, discrete) == [type |-> "rv_frozen", name |-> name, discrete |-> discrete]

Norm == Frozen("norm", FALSE)

Bernoulli == Frozen("bernoulli", TRUE)

\* the string 'norm' of test_bad_arg
NotADistribution == [type |-> "str", name |-> "norm", discrete |-> FALSE]

\* np.empty((nSamples, mParams)) before it is filled
NoArray == [shape |-> <<>>, rows |-> <<>>]

NoSampling ==
  [paramDists |-> <<>>, nSamples |-> NSamples("int", 0), status |-> "none",
   exc |-> "", failed_at |-> "", n_drawn |-> 0, ppf_columns |-> <<>>,
   lhs_samples |-> NoArray]

ArgError_DistsFirst(paramDists, nSamples) ==
  IF \E pp \in 1..Len(paramDists) : paramDists[pp].type # "rv_frozen" THEN "paramDists"
  ELSE IF nSamples.type # "int" THEN "nSamples"
  ELSE ""

\* lines 33-40: the argument that fails the verification of the inputs, ""
\* if none does
ArgError(paramDists, nSamples) ==
  IF nSamples.type # "int" THEN "nSamples"
  ELSE IF \E pp \in 1..Len(paramDists) : paramDists[pp].type # "rv_frozen" THEN "paramDists"
  ELSE ""

lhs_0to1_Unit(nSamples) ==
  [k \in 1..(nSamples + 1) |-> IF k = 1 THEN 0 ELSE nSamples * Resolution]

\* line 43: np.linspace(0, 1, nSamples + 1), the numerators of k / nSamples
lhs_0to1(nSamples) == [k \in 1..(nSamples + 1) |-> (k - 1) * Resolution]

\* line 49: random.uniform(a, b) = a + (b - a) * random(), r the numerator of
\* the random fraction
uniform(a, b, r) == a + (r * (b - a)) \div Resolution

\* line 52: the percent point function of a frozen distribution at the
\* probability num / den.  A continuous distribution's ppf is strictly
\* increasing, so its value is represented by the probability it is the
\* quantile of; bernoulli(0.74).ppf is -1 at 0, 0 up to 0.26 and 1 above.
ppf(dist, num, den) ==
  IF dist.discrete
    THEN [of |-> "integer", num |-> (IF num = 0 THEN 0 - 1
                                     ELSE IF num * 100 <= 26 * den THEN 0 ELSE 1),
          den |-> 1]
    ELSE [of |-> dist.name, num |-> num, den |-> den]

\* line 53: np.random.permutation(column), p the permutation drawn
permutation(column, p) == [ii \in 1..Len(column) |-> column[p[ii]]]

\* lhs, lines 15-55.  random[jj][ii] is the fraction random.uniform draws for
\* row ii of column jj, perm[jj] the permutation np.random.permutation draws
\* for column jj.
LhsBody(s, random, perm) ==
  LET err == ArgError(s.paramDists, s.nSamples) IN
    IF err # ""
      THEN [s EXCEPT !.status = "raised", !.exc = "ValueError", !.failed_at = err]
    ELSE IF s.nSamples.value < 0
      THEN [s EXCEPT !.status = "raised", !.exc = "ValueError", !.failed_at = "np.empty"]
    ELSE
      LET nSamples == s.nSamples.value
          mParams == Len(s.paramDists)
          points == lhs_0to1(nSamples)
          drawn == [jj \in 1..mParams |->
                     [ii \in 1..nSamples |->
                        uniform(points[ii], points[ii + 1], random[jj][ii])]]
          columns == [jj \in 1..mParams |->
                       [ii \in 1..nSamples |->
                          ppf(s.paramDists[jj], drawn[jj][ii], nSamples * Resolution)]]
          permuted == [jj \in 1..mParams |-> permutation(columns[jj], perm[jj])]
      IN  [s EXCEPT
             !.status = "returned",
             !.n_drawn = nSamples * mParams,
             !.ppf_columns = columns,
             !.lhs_samples =
               [shape |-> <<nSamples, mParams>>,
                rows |-> [ii \in 1..nSamples |->
                           [jj \in 1..mParams |-> permuted[jj][ii]]]]]

Randoms(s) ==
  IF ArgError(s.paramDists, s.nSamples) # "" \/ s.nSamples.value < 0 THEN {<<>>}
  ELSE [1..Len(s.paramDists) -> [1..s.nSamples.value -> 0..Resolution]]

Perms(s) ==
  IF ArgError(s.paramDists, s.nSamples) # "" \/ s.nSamples.value < 0 THEN {<<>>}
  ELSE [1..Len(s.paramDists) -> Permutations(1..s.nSamples.value)]

lhs ==
  /\ sampling.status = "none"
  /\ \E random \in Randoms(sampling), perm \in Perms(sampling) :
       sampling' = LhsBody(sampling, random, perm)
  /\ UNCHANGED <<worker, call, group, next_comm, sense, closing, inv, solver, factory>>

----------------------------------------------------------------------------
(* The arguments of _init *)

WorkerNames == <<"worker1", "worker2", "worker3", "worker4">>

InitArgs(w, wi, mpi, rc) ==
  [server_name |-> "server", uncompressed_scenario_tree |-> "tree",
   worker_name |-> WorkerNames[w], worker_init |-> wi,
   modules_imported |-> "modules", MPI |-> mpi, root_comm |-> rc]

\* the non-empty lists of scenarios, in tree order
OwnedLists ==
  {SelectSeq(ScenarioOrder, LAMBDA x : x \in S) : S \in (SUBSET Scenarios) \ {{}}}

----------------------------------------------------------------------------
(* SpecMPI: every process of the root communicator runs _init once, with a *)
(* well-formed Scenarios WorkerInit and collective communication enabled.  *)

InitWorkers(root_group) ==
  /\ worker = [w \in Workers |-> NewWorker]
  /\ call = [w \in Workers |-> NewCall]
  /\ group = (RootComm :> root_group)
  /\ next_comm = RootComm + 1
  /\ closing = [w \in Workers |-> NewClosing]
  /\ inv = NewInvoker
  /\ solver = NewSolver
  /\ factory = NewFactory
  /\ sampling = NoSampling

InitMPI ==
  /\ InitWorkers(Workers)
  /\ sense = [s \in Scenarios |-> "min"]

MPIInit(w) ==
  /\ call[w].n_init = 0
  /\ \E l \in OwnedLists : _init(w, InitArgs(w, ScenariosInit(l), "MPI", RootComm), FALSE)

Split == \E c \in DOMAIN group : SplitComplete(c)

NextMPI ==
  \/ \E w \in Workers : MPIInit(w)
  \/ Split

SpecMPI == InitMPI /\ [][NextMPI]_vars

\* every process keeps running and the collective layer makes progress
FairSpecMPI ==
  /\ InitMPI /\ [][NextMPI]_vars
  /\ \A w \in Workers : WF_vars(MPIInit(w))
  /\ \A c \in 1..(RootComm + Len(InteriorNodes)) : WF_vars(SplitComplete(c))

----------------------------------------------------------------------------
(* SpecClose: one process alone in its root communicator runs _init and    *)
(* then _close_impl, up to MaxCloseCalls times.                            *)

InitSingle ==
  /\ InitWorkers({1})
  /\ sense = [s \in Scenarios |-> "min"]

CloseInit ==
  /\ call[1].n_init = 0
  /\ closing[1].n_close = 0
  /\ \E l \in OwnedLists :
       \/ _init(1, InitArgs(1, ScenariosInit(l), "MPI", RootComm), FALSE)
       \/ _init(1, InitArgs(1, ScenariosInit(l), None, COMM_NULL), FALSE)

Close == \E super_ok \in BOOLEAN, options \in {"fail", "none", "some"}, refree_ok \in BOOLEAN :
           _close_impl(1, super_ok, options, refree_ok)

NextClose ==
  \/ CloseInit
  \/ Split
  \/ Close

SpecClose == InitSingle /\ [][NextClose]_vars

----------------------------------------------------------------------------
(* Claims about the communicator topology *)

InteriorSet == Range(InteriorNodes)

AllInitDone == \A w \in Workers : call[w].pc = "idle" /\ call[w].outcome = "ok"

\* the processes whose mapping has an entry for node n
Holders(n) == {w \in Workers : n \in DOMAIN worker[w].mpi_comm_tree}

\* the processes whose WorkerInit names a scenario under node n
Owners(n) ==
  {w \in Workers : \E s \in Range(scenarios_to_construct(call[w].worker_init)) :
                     n \in Ancestors(LeafOf[s])}

\* the processes of the communicator(s) held for node n
Members(n) == UNION {group[worker[w].mpi_comm_tree[n]] : w \in Holders(n)}

SplitsFor(w, n) == SelectSeq(call[w].splits, LAMBDA e : e.node = n)

NodesOn(w, c) == SelectSeq(call[w].splits, LAMBDA e : e.comm = c)

\* every member of the parent's communicator has called Split exactly once
\* for node n, on that communicator, with the key the claim names
C1_OncePerNode ==
  \A n \in InteriorSet : \A w \in Members(Parent[n]) :
    /\ Len(SplitsFor(w, n)) = 1
    /\ SplitsFor(w, n)[1].comm = worker[w].mpi_comm_tree[Parent[n]]
    /\ SplitsFor(w, n)[1].key = (IF w \in Owners(n) THEN JoinKey ELSE UNDEFINED)

\* the calls any two processes have issued on one communicator are for the
\* same nodes in the same order
C1_SameOrder ==
  \A w1, w2 \in Workers : \A c \in DOMAIN group :
    \A i \in 1..Len(NodesOn(w1, c)) :
      i <= Len(NodesOn(w2, c)) => NodesOn(w1, c)[i].node = NodesOn(w2, c)[i].node

\* C1: with all workers running _init with collective communication over
\* the same tree, every member of a parent's communicator calls Split on it
\* exactly once per interior node (join if it owns the node, exclude
\* otherwise), all in the same node order, and every worker finishes _init:
\* no Split blocks forever.
C1_SplitsComplete ==
  /\ [](C1_SameOrder /\ (AllInitDone => C1_OncePerNode))
  /\ <>[]AllInitDone

\* all workers are done, one of them was excluded from a node's group by an
\* exclude Split and made no call at all below that node
C1_Witness ==
  /\ AllInitDone
  /\ \E w \in Workers :
       /\ \E i \in 1..Len(call[w].splits) : call[w].splits[i].key = UNDEFINED
       /\ \E n \in InteriorSet : SplitsFor(w, n) = <<>>
       /\ \E i \in 1..Len(call[w].splits) : call[w].splits[i].key = JoinKey

\* C2: after all workers have finished _init, the processes holding a
\* communicator for an interior node are exactly the processes owning a
\* scenario under it, and that communicator's group is exactly that set.
C2_GroupIsOwners ==
  AllInitDone =>
    \A n \in InteriorSet :
      /\ Holders(n) = Owners(n)
      /\ \A w \in Holders(n) : group[worker[w].mpi_comm_tree[n]] = Owners(n)

\* all done, and some interior node is owned by some but not all processes
C2_Witness ==
  /\ AllInitDone
  /\ \E n \in InteriorSet :
       /\ Owners(n) # {} /\ Owners(n) # Workers
       /\ Holders(n) = Owners(n)
       /\ \E w \in Holders(n) : group[worker[w].mpi_comm_tree[n]] = Owners(n)

----------------------------------------------------------------------------
(* SpecInit: one process alone in its root communicator calls _init up to  *)
(* MaxInitCalls times, with well-formed and malformed WorkerInit values,   *)
(* with and without collective communication.                              *)

BundleNameLists == {<<>>, <<"b1">>, <<"b1", "b2">>, <<"b1", "b1">>}

BundleDicts ==
  { ("b1" :> ListEntry(<<"s1">>)) @@ ("b2" :> ListEntry(<<"s2", "s3">>)),
    ("b1" :> ListEntry(<<"s1", "s2">>)),
    ("b1" :> NonListEntry) @@ ("b2" :> ListEntry(<<"s3">>)),
    ("b1" :> ListEntry(<<>>)) @@ ("b2" :> ListEntry(<<"s3">>)),
    ("b1" :> ListEntry(<<>>)) @@ ("b2" :> ListEntry(<<>>)) }

WorkerInits ==
  {ScenariosInit(l) : l \in OwnedLists \cup {<<>>, <<"s2", "s1">>, <<"s1", "s1">>}}
  \cup {WorkerInit("Scenarios", <<"s1">>, TRUE, DataOther),
        WorkerInit("Scenarios", <<"s1">>, TRUE, DataDict("b1" :> ListEntry(<<"s1">>))),
        WorkerInit("Scenarios", <<>>, FALSE, DataNone),
        WorkerInit("Other", <<"s1">>, TRUE, DataNone),
        WorkerInit("Bundles", <<"b1">>, TRUE, DataNone),
        WorkerInit("Bundles", <<"b1">>, TRUE, DataOther),
        WorkerInit("Bundles", <<>>, FALSE, DataDict("b1" :> ListEntry(<<"s1">>)))}
  \cup {BundlesInit(l, m) : l \in BundleNameLists, m \in BundleDicts}

SenseChoices ==
  {[s \in Scenarios |-> "min"],
   [s \in Scenarios |-> IF s = "s3" THEN "max" ELSE "min"]}

CommChoices ==
  {[MPI |-> None, root_comm |-> COMM_NULL], [MPI |-> "MPI", root_comm |-> RootComm],
   [MPI |-> None, root_comm |-> RootComm], [MPI |-> "MPI", root_comm |-> COMM_NULL]}

InitInit ==
  /\ InitWorkers({1})
  /\ sense \in SenseChoices

AnyInit ==
  /\ call[1].n_init < MaxInitCalls
  /\ \E wi \in WorkerInits, m \in CommChoices, base_implemented \in BOOLEAN :
       _init(1, InitArgs(1, wi, m.MPI, m.root_comm), base_implemented)

NextInit ==
  \/ AnyInit
  \/ Split

SpecInit == InitInit /\ [][NextInit]_vars

----------------------------------------------------------------------------
(* Claims about _init's failures *)

\* the malformed WorkerInit values C8 names
Malformed(wi) ==
  \/ wi.names_is_list /\ Len(wi.names) = 0
  \/ wi.type_ = "Scenarios" /\ wi.data.kind # "None"
  \/ wi.type_ = "Bundles" /\ wi.data.kind # "dict"

\* this step is a call of _init by worker w
InitCalled(w) == call'[w].n_init = call[w].n_init + 1

\* C8 (as claimed): an _init given a malformed WorkerInit fails and leaves
\* the worker as it was: server name, worker name, imported modules,
\* uncompressed tree, compressed tree, instances and communicator mapping.
C8_MalformedInitChangesNothing ==
  [][(InitCalled(1) /\ Malformed(call'[1].worker_init))
       => /\ call'[1].outcome \notin {"ok", "none"}
          /\ call'[1].pc = "idle"
          /\ worker'[1] = worker[1]]_vars

\* C9 (as claimed): an _init on a worker whose latest _init returned
\* normally fails and rebuilds nothing.
C9_ReinitFails ==
  [][(InitCalled(1) /\ call[1].outcome = "ok")
       => /\ call'[1].outcome \notin {"ok", "none"}
          /\ call'[1].pc = "idle"
          /\ call'[1].n_built = call[1].n_built
          /\ worker'[1]._scenario_tree = worker[1]._scenario_tree
          /\ worker'[1]._instances = worker[1]._instances
          /\ worker'[1].mpi_comm_tree = worker[1].mpi_comm_tree]_vars

\* C9 (amended): _init fails fatally, changing nothing, exactly when a base
\* class implements _init; whether the worker was initialized before plays
\* no part: with no base implementation and a WorkerInit that passes the
\* validation, the compressed tree and the instances are built (again).
C9_FailsOnlyOnBaseInit ==
  [][InitCalled(1) =>
       IF call'[1].base_implemented
         THEN /\ call'[1].outcome = "AssertionError"
              /\ call'[1].pc = "idle"
              /\ call'[1].n_built = call[1].n_built
              /\ worker' = worker
         ELSE ValidationError(call'[1].worker_init) = ""
                => /\ call'[1].n_built = call[1].n_built + 1
                   /\ worker'[1]._scenario_tree.built
                   /\ worker'[1]._instances
                        = Range(scenarios_to_construct(call'[1].worker_init))]_vars

\* a second _init on an initialized worker has returned normally with a
\* different compressed tree and a rebuilt communicator mapping, and an
\* _init has failed on a base class's implementation
C9_Witness ==
  /\ call[1].n_init = 2 /\ call[1].n_built = 2
  /\ call[1].outcome = "ok" /\ call[1].pc = "idle"
  /\ ~call[1].base_implemented
  /\ worker[1].MPI # None
  /\ Cardinality(DOMAIN worker[1].mpi_comm_tree) > 2

\* C10 (as claimed): whenever _close_impl has been called, on whatever exit
\* path, every communicator of the mapping has been freed by each call.
C10_FreeOnEveryExit ==
  \A w \in Workers :
    closing[w].n_close > 0 =>
      \A n \in DOMAIN worker[w].mpi_comm_tree :
        /\ worker[w].mpi_comm_tree[n] \in DOMAIN closing[w].freed
        /\ closing[w].freed[worker[w].mpi_comm_tree[n]] >= closing[w].n_close

----------------------------------------------------------------------------
(* SpecInvoke: worker 1 is initialized (serially) and then receives up to  *)
(* MaxInvokes invocation calls.                                            *)

Functions == {[is_string |-> TRUE, name |-> "f"], [is_string |-> FALSE, name |-> "<dill>"]}

\* the lists tree_object_names['nodes'] and tree_object_names['scenarios']
TreeNodeRequests == {<<>>, <<"R">>, <<"A", "R">>, <<"R", "R">>, <<"B">>}

ScenarioRequests == {<<>>, <<"s1">>, <<"s3", "s1">>}

MethodCalls ==
  {[name |-> "assign_data", args |-> [name |-> a, data |-> "renamed"]] :
     a \in {"_worker_name", "_server_name"}}
  \cup {[name |-> n, args |-> NoArgs] : n \in {"no_such_method", "_worker_name"}}
  \cup {[name |-> "_collect_scenario_tree_data_for_client",
          args |-> [nodes |-> nodes, scenarios |-> scenarios]] :
          nodes \in TreeNodeRequests, scenarios \in ScenarioRequests}

InvokeInit ==
  /\ call[1].n_init = 0
  /\ \E l \in {<<"s1">>, <<"s1", "s3">>} :
       _init(1, InitArgs(1, ScenariosInit(l), None, COMM_NULL), FALSE)

InvokeFunction ==
  \E function \in Functions, module_name \in {None, "module"},
     invocation_type \in InvocationTypes, async \in BOOLEAN, oneway \in BOOLEAN :
       invoke_function(function, module_name, invocation_type, async, oneway, TRUE)

InvokeFunctionImpl ==
  \E function \in Functions, module_name \in {None, "module"},
     invocation_type \in InvocationTypes, dill_available \in BOOLEAN :
       _invoke_function_impl(function, module_name, invocation_type, dill_available)

InvokeMethod ==
  \E m \in MethodCalls, async \in BOOLEAN, oneway \in BOOLEAN :
       invoke_method(m.name, m.args, async, oneway)

InvokeMethodImpl ==
  \E m \in MethodCalls : _invoke_method_impl(m.name, m.args)

NextInvoke ==
  \/ InvokeInit
  \/ InvokeFunction
  \/ InvokeFunctionImpl
  \/ InvokeMethod
  \/ InvokeMethodImpl

SpecInvoke == InitSingle /\ [][NextInvoke]_vars

----------------------------------------------------------------------------
(* Claims about remote invocation *)

LastIs(ops) == inv.last.op \in ops

\* this step is an invocation call
Invoked == inv'.n_calls = inv.n_calls + 1

\* C3: invoke_function and invoke_method called with the deferred and the
\* fire-and-forget flag both true fail with the usage error (ValueError)
\* before anything else is done: the target is not executed and the worker
\* is left as it was.
C3_BothFlagsRejected ==
  [][(/\ Invoked
      /\ inv'.last.op \in {"invoke_function", "invoke_method"}
      /\ inv'.last.async /\ inv'.last.oneway)
       => /\ inv'.last.status = "raised"
          /\ inv'.last.exc = "ValueError"
          /\ inv'.last.n_exec = 0
          /\ worker' = worker]_vars

\* both kinds of call have been made with both flags, on targets that exist
C3_Witness ==
  /\ LastIs({"invoke_method"}) /\ inv.last.async /\ inv.last.oneway
  /\ inv.last.name = "assign_data"
  /\ inv.last.status = "raised"
  /\ worker[1]._worker_name = WorkerNames[1]

\* C5 (as claimed): invoke_function with a valid function/module shape and
\* neither flag returns the helper's result in a mapping keyed by the
\* worker's own name.
C5_DefaultFunctionResultKeyed ==
  (/\ LastIs({"invoke_function"})
   /\ ~inv.last.async /\ ~inv.last.oneway
   /\ (inv.last.name = "f") = (inv.last.module_name # None))
    => /\ inv.last.status = "returned"
       /\ inv.last.n_exec >= 1
       /\ inv.last.result = Keyed(inv.last.worker_name, inv.last.target_value)

\* the method the call invoked was executed and raised an exception itself
MethodRaised(c) == c.n_exec = 1 /\ c.status = "raised"

\* C6: invoke_method with neither flag, on an existing method that does not
\* raise an exception itself, returns a mapping with exactly one entry: the
\* worker's own name mapped to the value the method returned.
C6_DefaultMethodResultKeyed ==
  (/\ LastIs({"invoke_method"})
   /\ ~inv.last.async /\ ~inv.last.oneway
   /\ inv.last.name \in MethodNames
   /\ ~MethodRaised(inv.last))
    => /\ inv.last.status = "returned"
       /\ inv.last.n_exec = 1
       /\ inv.last.result.keyed /\ ~inv.last.result.async
       /\ Cardinality(DOMAIN inv.last.result.map) = 1
       /\ DOMAIN inv.last.result.map = {inv.last.worker_name}
       /\ inv.last.result.map[inv.last.worker_name] = inv.last.target_value

\* a default-mode invoke_method has returned a value other than None, keyed
\* by the name _init gave the worker
C6_Witness ==
  /\ LastIs({"invoke_method"}) /\ ~inv.last.async /\ ~inv.last.oneway
  /\ inv.last.status = "returned"
  /\ inv.last.target_value = "tree_data"
  /\ inv.last.worker_name = WorkerNames[1]
  /\ inv.last.result.keyed

\* C7 (as claimed): with only the fire-and-forget flag set, invoke_function
\* and invoke_method execute the target at most once and return no value: the
\* caller gets None, never the target's return value.
C7_OnewayReturnsNothing ==
  (LastIs({"invoke_function", "invoke_method"}) /\ inv.last.oneway /\ ~inv.last.async
     /\ inv.last.name \in MethodNames \cup {"f"})
    => /\ inv.last.n_exec <= 1
       /\ inv.last.status = "returned"
       /\ inv.last.result = Raw(None)

----------------------------------------------------------------------------
(* SpecSolve: up to MaxSolveCalls calls of solve, nested up to MaxDepth,    *)
(* on a solver whose persistent options are empty or hold one option.       *)

TmpOptions == {NoOptions, ("k1" :> "tmp")}

Xhats ==
  { ("R" :> (("x" :> "v1") @@ ("e" :> "v2"))),
    ("R" :> ("x" :> "v2")) @@ ("A" :> ("y" :> "v1")),
    ("R" :> ("zz" :> "v1")) }

InitSolve ==
  /\ worker = [w \in Workers |-> NewWorker]
  /\ call = [w \in Workers |-> NewCall]
  /\ group = (RootComm :> {1})
  /\ next_comm = RootComm + 1
  /\ closing = [w \in Workers |-> NewClosing]
  /\ inv = NewInvoker
  /\ factory = NewFactory
  /\ sampling = NoSampling
  /\ sense = [s \in Scenarios |-> "min"]
  /\ \E persistent \in {NoOptions, ("k1" :> "set")} :
       solver = [NewSolver EXCEPT !.heap = <<persistent>>]

Solve ==
  \E reference_model \in BOOLEAN, stats_ok \in BOOLEAN :
    \/ solve(FALSE, NoOptions, TRUE, reference_model, stats_ok)
    \/ \E tmp_options \in TmpOptions : solve(TRUE, tmp_options, TRUE, reference_model, stats_ok)
    \/ solve(TRUE, NoOptions, FALSE, reference_model, stats_ok)

StrategySetsOption == \E k \in OptionKeys : strategy_sets_option(k, "strategy")

StrategyReturns ==
  \/ solve_impl_returns(FALSE, NoXhat)
  \/ \E xhat \in Xhats : solve_impl_returns(TRUE, xhat)

NextSolve ==
  \/ Solve
  \/ StrategySetsOption
  \/ StrategyReturns
  \/ solve_impl_raises

SpecSolve == InitSolve /\ [][NextSolve]_vars

----------------------------------------------------------------------------
(* Claims about SPSolver.solve *)

\* this step ends a solve call
SolveEnded == solver'.n_done = solver.n_done + 1

\* C4: when a solve call with per-call options ends, normally or with a
\* failure, self.options holds the keys and values it held before the call,
\* and the object that held them before the call still holds them; when the
\* call got as far as the statistics or the strategy, self.options is that
\* very object again.
C4_OptionsRestored ==
  [][(SolveEnded /\ solver'.last.tmp_given)
       => /\ solver'.heap[solver'._solver_options] = solver'.last.before
          /\ solver'.heap[solver'.last.before_id] = solver'.last.before
          /\ solver'.last.failed_in # "options"
               => solver'._solver_options = solver'.last.before_id]_vars

\* a call with per-call options, under which the strategy saw the layered
\* options and wrote one more, has failed in the strategy, and the
\* persistent options are back
C4_Witness ==
  /\ solver.last.tmp_given /\ solver.last.tmp_options # NoOptions
  /\ solver.last.status = "raised" /\ solver.last.failed_in = "_solve_impl"
  /\ solver.stack = <<>>
  /\ solver.last.seen # solver.last.before
  /\ \E k \in DOMAIN solver.last.seen : solver.last.seen[k] = "strategy"
  /\ solver.heap[solver._solver_options] = solver.last.before

----------------------------------------------------------------------------
(* Claims about the keys of the communicator mapping *)

LeafSet == Range(Stages[Len(Stages)])

\* worker w has returned normally from an _init with collective communication
InitDoneMPI(w) ==
  call[w].pc = "idle" /\ call[w].outcome = "ok" /\ worker[w].MPI # None

\* C11 (as claimed): after _init with collective communication the mapping
\* has no entry for the root node and none for a leaf node, only interior
\* nodes are keys, and _close_impl never frees the root communicator.
C11_OnlyInteriorKeys ==
  \A w \in Workers :
    InitDoneMPI(w) =>
      /\ RootNode \notin DOMAIN worker[w].mpi_comm_tree
      /\ DOMAIN worker[w].mpi_comm_tree \cap LeafSet = {}
      /\ DOMAIN worker[w].mpi_comm_tree \subseteq InteriorSet
      /\ RootComm \notin DOMAIN closing[w].freed

\* the nodes of the first interior stage: the children of the root
RootChildren == Range(Stages[2])

\* C12: for a worker that has finished _init, a child of the root under
\* which it owns a scenario has an entry obtained by one join Split of the
\* root communicator; a child under which it owns none has no entry, and
\* the worker has issued exactly one exclude Split for it on the root
\* communicator.  In general an interior node is a key of the mapping
\* exactly when the worker's compressed tree contains the node.
C12_JoinAndExcludeSplits ==
  \A w \in Workers :
    InitDoneMPI(w) =>
      /\ \A n \in RootChildren :
           IF w \in Owners(n)
             THEN /\ n \in DOMAIN worker[w].mpi_comm_tree
                  /\ worker[w].mpi_comm_tree[n] # RootComm
                  /\ w \in group[worker[w].mpi_comm_tree[n]]
                  /\ SplitsFor(w, n) = <<[node |-> n, comm |-> RootComm, key |-> JoinKey]>>
             ELSE /\ n \notin DOMAIN worker[w].mpi_comm_tree
                  /\ SplitsFor(w, n) = <<[node |-> n, comm |-> RootComm, key |-> UNDEFINED]>>
      /\ \A n \in InteriorSet :
           n \in DOMAIN worker[w].mpi_comm_tree <=> contains_node(worker[w]._scenario_tree, n)

\* a worker owning scenarios only under A has finished _init: it holds a
\* communicator for A, none for B, and has issued the exclude Split for B
C12_Witness ==
  \E w \in Workers :
    /\ InitDoneMPI(w)
    /\ w \in Owners("A") /\ w \notin Owners("B")
    /\ "A" \in DOMAIN worker[w].mpi_comm_tree
    /\ "B" \notin DOMAIN worker[w].mpi_comm_tree
    /\ Len(SplitsFor(w, "B")) = 1

----------------------------------------------------------------------------
(* SpecFactory: up to MaxFactoryOps registrations and factory calls.        *)

FactoryKwds == {NoOptions, ("k1" :> "kwd")}

Register == \E name \in SolverNames, type_ \in SolverTypes : _register_solver(name, type_)

Create ==
  \E solver_name \in SolverNames, kwds \in FactoryKwds, type_ok \in BOOLEAN :
    SPSolverFactory(solver_name, kwds, type_ok)

NextFactory ==
  \/ Register
  \/ Create

SpecFactory == InitSingle /\ [][NextFactory]_vars

----------------------------------------------------------------------------
(* SpecLHS: one call of lhs, with every list of at most two parameter      *)
(* distributions and every number of samples of the sets below.            *)

ParamDistLists ==
  {<<>>, <<Norm>>, <<Bernoulli>>, <<Norm, Norm>>, <<Norm, Bernoulli>>,
   <<Bernoulli, Norm>>, <<NotADistribution>>, <<Norm, NotADistribution>>}

\* the integers -1..MaxSamples, the float 1e3 of test_bad_arg and True
NSamplesChoices ==
  {NSamples("int", n) : n \in (0 - 1)..MaxSamples}
    \cup {NSamples("float", 1000), NSamples("bool", 1)}

InitLHS ==
  /\ worker = [w \in Workers |-> NewWorker]
  /\ call = [w \in Workers |-> NewCall]
  /\ group = (RootComm :> {1})
  /\ next_comm = RootComm + 1
  /\ closing = [w \in Workers |-> NewClosing]
  /\ inv = NewInvoker
  /\ solver = NewSolver
  /\ factory = NewFactory
  /\ sense = [s \in Scenarios |-> "min"]
  /\ \E paramDists \in ParamDistLists, nSamples \in NSamplesChoices :
       sampling = [NoSampling EXCEPT !.paramDists = paramDists, !.nSamples = nSamples]

NextLHS == lhs

SpecLHS == InitLHS /\ [][NextLHS]_vars

----------------------------------------------------------------------------
(* Claims about SPSolverFactory *)

\* this step is a call of _register_solver / of SPSolverFactory
RegisterCalled == factory'.n_ops = factory.n_ops + 1 /\ factory'.last.op = "register"

CreateCalled == factory'.n_ops = factory.n_ops + 1 /\ factory'.last.op = "create"

\* C13 (as claimed): a registration under a name that is already registered
\* fails, and the name stays mapped to the type registered first.
C13_SecondRegistrationFails ==
  [][(RegisterCalled /\ factory'.last.name \in DOMAIN factory._registered_solvers)
       => /\ factory'.last.status = "raised"
          /\ factory'._registered_solvers[factory'.last.name]
               = factory.first[factory'.last.name]]_vars

\* C14: a factory call for a name that is not in the registry fails with
\* ValueError and returns nothing; a factory call for a registered name that
\* returns, returns an instance of the type the registry holds for that
\* name, and a failing one returns nothing.
C14_UnknownNameFails ==
  [][CreateCalled =>
       IF factory'.last.name \notin DOMAIN factory._registered_solvers
         THEN /\ factory'.last.status = "raised"
              /\ factory'.last.exc = "ValueError"
              /\ factory'.last.result = NoInstance
         ELSE /\ factory'.last.status = "returned"
                   => /\ factory'.last.result.created
                      /\ factory'.last.result.type_
                           = factory._registered_solvers[factory'.last.name]
              /\ factory'.last.status = "raised" => factory'.last.result = NoInstance]_vars

\* after a registration, the factory has been called with a name that is
\* not registered and has failed with ValueError
C14_Witness ==
  /\ factory.last.op = "create"
  /\ DOMAIN factory._registered_solvers # {}
  /\ factory.last.name \notin DOMAIN factory._registered_solvers
  /\ factory.last.status = "raised" /\ factory.last.exc = "ValueError"

\* C15: when a solve call with a reference model returns, every identifier
\* of the strategy's solution names a component of the reference model; a
\* component that is no expression has the solution's value and is not
\* stale, an expression is as it was before; and the returned results have
\* no xhat.  ("e" is the expression among the components.)
C15_SolutionWrittenBack ==
  [][(SolveEnded /\ solver'.last.status = "returned" /\ solver'.last.reference_model)
       => /\ \A n \in DOMAIN solver'.last.solution :
               \A id \in DOMAIN solver'.last.solution[n] :
                 /\ id \in Components
                 /\ IF id = "e"
                      THEN solver'.reference_model[id] = solver.reference_model[id]
                      ELSE solver'.reference_model[id]
                             = [value |-> solver'.last.solution[n][id], stale |-> FALSE]
          /\ ~solver'.last.results.has_xhat]_vars

\* a call with a reference model has returned a solution naming a variable
\* and an expression: the variable holds its value, the expression is stale
\* and without value as at the start
C15_Witness ==
  /\ solver.last.status = "returned" /\ solver.last.reference_model
  /\ \E n \in DOMAIN solver.last.solution :
       /\ {"x", "e"} \subseteq DOMAIN solver.last.solution[n]
       /\ solver.reference_model["x"] = [value |-> solver.last.solution[n]["x"],
                                         stale |-> FALSE]
  /\ solver.reference_model["e"] = NewComponent
  /\ ~solver.last.results.has_xhat

\* C16: when _solve_impl fails, the solve call raises and returns no
\* results; at that point, when per-call options were given, self.options
\* is the object it was before the call with the content it had before the
\* call; and the reference model has not been written to.
C16_StrategyFailurePropagates ==
  [][(SolveEnded /\ solver'.last.failed_in = "_solve_impl")
       => /\ solver'.last.status = "raised"
          /\ solver'.last.results = NoResults
          /\ solver'.last.tmp_given
               => /\ solver'._solver_options = solver'.last.before_id
                  /\ solver'.heap[solver'.last.before_id] = solver'.last.before
          /\ solver'.reference_model = solver.reference_model]_vars

\* the strategy has failed in a call with per-call options and a reference
\* model, after an earlier call had written a solution to the reference
\* model: the options are back and the earlier values are still there
C16_Witness ==
  /\ solver.last.status = "raised" /\ solver.last.failed_in = "_solve_impl"
  /\ solver.last.tmp_given /\ solver.last.reference_model
  /\ solver._solver_options = solver.last.before_id
  /\ solver.last.results = NoResults
  /\ \E c \in Components : ~solver.reference_model[c].stale

----------------------------------------------------------------------------
(* Claims about the tree _init builds *)

\* the well-formed WorkerInit values, in the words of the specification
WellFormedScenarios(wi) ==
  /\ wi.type_ = "Scenarios"
  /\ wi.names_is_list /\ Len(wi.names) > 0
  /\ wi.data.kind = "None"

WellFormedBundles(wi) ==
  /\ wi.type_ = "Bundles"
  /\ wi.names_is_list /\ Len(wi.names) > 0
  /\ wi.data.kind = "dict"
  /\ \A i \in 1..Len(wi.names) :
       /\ wi.names[i] \in DOMAIN wi.data.map
       /\ wi.data.map[wi.names[i]].is_list
       /\ Len(wi.data.map[wi.names[i]].scen) > 0

\* C17: an _init that gets past the base-class check with a well-formed
\* Scenarios WorkerInit builds the compressed tree: its scenarios are
\* exactly the names of the WorkerInit, each with the probability it has in
\* the uncompressed tree.
C17_TreeHasExactlyTheNames ==
  [][(InitCalled(1) /\ ~call'[1].base_implemented
        /\ WellFormedScenarios(call'[1].worker_init))
       => /\ worker'[1]._scenario_tree.built
          /\ Range(worker'[1]._scenario_tree.scenarios) = Range(call'[1].worker_init.names)
          /\ DOMAIN worker'[1]._scenario_tree.probability
               = Range(call'[1].worker_init.names)
          /\ \A s \in Range(call'[1].worker_init.names) :
               worker'[1]._scenario_tree.probability[s] = Probability[s]]_vars

\* _init has returned normally for the names s1 and s3: the tree holds the
\* two scenarios with probabilities that do not sum to one
C17_Witness ==
  /\ call[1].outcome = "ok" /\ call[1].pc = "idle"
  /\ call[1].worker_init = ScenariosInit(<<"s1", "s3">>)
  /\ Range(worker[1]._scenario_tree.scenarios) = {"s1", "s3"}
  /\ worker[1]._scenario_tree.probability["s1"] = Probability["s1"]
  /\ TotalProbability(Range(worker[1]._scenario_tree.scenarios)) < 100

\* the scenarios the bundles of a well-formed Bundles WorkerInit name
BundledScenarios(wi) ==
  UNION {Range(wi.data.map[wi.names[i]].scen) : i \in 1..Len(wi.names)}

RepeatsAName(wi) ==
  \E i, j \in 1..Len(wi.names) : i # j /\ wi.names[i] = wi.names[j]

\* the call of _init made in this step has failed / has not failed (it has
\* returned normally or is in the loop over the interior stages)
InitFailed == call'[1].pc = "idle" /\ call'[1].outcome \notin {"ok", "none"}

InitNotFailed == call'[1].pc = "Split" \/ call'[1].outcome = "ok"

\* C18: an _init that gets past the base-class check with a well-formed
\* Bundles WorkerInit builds the compressed tree on the union of the
\* scenarios of the named bundles; if a bundle name is repeated the call
\* fails; otherwise, unless the call fails, the bundles of the tree are
\* exactly the named bundles, each holding the scenarios given for it.
C18_BundlesCoverTheTree ==
  [][(InitCalled(1) /\ ~call'[1].base_implemented
        /\ WellFormedBundles(call'[1].worker_init))
       => /\ Range(worker'[1]._scenario_tree.scenarios)
               = BundledScenarios(call'[1].worker_init)
          /\ RepeatsAName(call'[1].worker_init) => InitFailed
          /\ InitNotFailed
               => /\ DOMAIN worker'[1]._scenario_tree.bundles
                       = Range(call'[1].worker_init.names)
                  /\ \A b \in Range(call'[1].worker_init.names) :
                       worker'[1]._scenario_tree.bundles[b]
                         = call'[1].worker_init.data.map[b].scen]_vars

\* _init has returned normally for two bundles that cover all scenarios
C18_Witness ==
  /\ call[1].outcome = "ok" /\ call[1].pc = "idle"
  /\ call[1].worker_init.type_ = "Bundles"
  /\ DOMAIN worker[1]._scenario_tree.bundles = {"b1", "b2"}
  /\ Range(worker[1]._scenario_tree.scenarios) = Scenarios
  /\ worker[1]._scenario_tree.bundles["b2"] = <<"s2", "s3">>

\* the scenarios a well-formed WorkerInit makes the worker own
OwnedScenarios(wi) ==
  IF wi.type_ = "Scenarios" THEN Range(wi.names) ELSE BundledScenarios(wi)

WellFormed(wi) == WellFormedScenarios(wi) \/ WellFormedBundles(wi)

\* C19: an _init given scenarios that do not all declare the same objective
\* sense fails; and whenever the latest _init has returned normally, the
\* recorded objective sense is the sense of every scenario of the
\* compressed tree.
C19_OneObjectiveSense ==
  /\ [][(InitCalled(1) /\ WellFormed(call'[1].worker_init)
           /\ \E s, t \in OwnedScenarios(call'[1].worker_init) : sense[s] # sense[t])
          => InitFailed]_vars
  /\ []((call[1].pc = "idle" /\ call[1].outcome = "ok")
          => \A s \in Range(worker[1]._scenario_tree.scenarios) :
               sense[s] = worker[1]._objective_sense)

\* an _init given well-formed scenarios of differing objective senses has
\* failed at the assertion, with the compressed tree built and the sense of
\* its first scenario recorded
C19_Witness ==
  /\ call[1].pc = "idle" /\ call[1].outcome = "AssertionError"
  /\ WellFormed(call[1].worker_init)
  /\ \E s, t \in OwnedScenarios(call[1].worker_init) : sense[s] # sense[t]
  /\ worker[1]._scenario_tree.built
  /\ worker[1]._objective_sense = sense[worker[1]._scenario_tree.scenarios[1]]

\* C20 (as claimed): _init rejects every WorkerInit that is not well formed,
\* and an _init that does not fail was given a well-formed one.
C20_OnlyWellFormedAccepted ==
  [][(InitCalled(1) /\ ~WellFormed(call'[1].worker_init)) => InitFailed]_vars

----------------------------------------------------------------------------
(* Claims about the shapes and names given to the invocation methods *)

\* the two invalid shapes of (function, module_name): a serialized function
\* with a module name, a function name without one
InvalidShape(c) ==
  \/ c.name = "<dill>" /\ c.module_name # None
  \/ c.name = "f" /\ c.module_name = None

\* C21 (as claimed): invoke_function, called without the flag conflict,
\* rejects the two invalid shapes with the usage error (ValueError) before
\* the function is executed, and executes the function for the two other
\* shapes.
C21_InvalidShapesRejected ==
  (LastIs({"invoke_function"}) /\ ~(inv.last.async /\ inv.last.oneway))
    => IF InvalidShape(inv.last)
         THEN /\ inv.last.status = "raised"
              /\ inv.last.exc = "ValueError"
              /\ inv.last.n_exec = 0
         ELSE inv.last.n_exec >= 1

\* the attributes of the worker object: its fields and its methods
HasAttribute(self, name) == name \in (DOMAIN self) \cup MethodNames

\* C22: invoke_method and _invoke_method_impl, given a name that is no
\* attribute of the worker, fail; no method is executed and the worker is as
\* it was.
C22_UnknownMethodFails ==
  [][(/\ Invoked
      /\ inv'.last.op \in {"invoke_method", "_invoke_method_impl"}
      /\ ~HasAttribute(worker[1], inv'.last.name))
       => /\ inv'.last.status = "raised"
          /\ inv'.last.exc = (IF inv'.last.async /\ inv'.last.oneway
                                THEN "ValueError" ELSE "AttributeError")
          /\ inv'.last.n_exec = 0
          /\ worker' = worker]_vars

\* _invoke_method_impl has failed on a name that is no attribute of the
\* initialized worker
C22_Witness ==
  /\ LastIs({"_invoke_method_impl"})
  /\ ~HasAttribute(worker[1], inv.last.name)
  /\ inv.last.status = "raised" /\ inv.last.exc = "AttributeError"
  /\ inv.last.n_exec = 0
  /\ worker[1]._worker_name = WorkerNames[1]

----------------------------------------------------------------------------
(* Claims about the lifetime of the registrations *)

\* C23: the registry only grows: a name that is registered stays registered
\* through every operation, a registration that succeeds leaves its name
\* registered, every name that was ever registered (the ghost record of
\* first registrations) is registered, and a call of SPSolverFactory, whether
\* it returns or raises, leaves the registry as it was.
C23_RegistryAppendOnly ==
  /\ [][/\ DOMAIN factory._registered_solvers
             \subseteq DOMAIN factory'._registered_solvers
        /\ (RegisterCalled /\ factory'.last.status = "returned")
             => factory'.last.name \in DOMAIN factory'._registered_solvers
        /\ CreateCalled
             => factory'._registered_solvers = factory._registered_solvers]_vars
  /\ [](DOMAIN factory.first \subseteq DOMAIN factory._registered_solvers)

\* two names were registered and a call of SPSolverFactory has then failed:
\* both are still registered
C23_Witness ==
  /\ factory.last.op = "create" /\ factory.last.status = "raised"
  /\ DOMAIN factory.first = SolverNames
  /\ DOMAIN factory._registered_solvers = SolverNames

----------------------------------------------------------------------------
(* Claims about lhs *)

LhsCalled == sampling.status # "none"

\* C24: lhs rejects with ValueError, before any sample is drawn and without
\* an array, an nSamples whose type is not exactly int and a paramDists
\* with an element that is no frozen distribution; when both are wrong the
\* failure is the one of nSamples, which is verified first.
C24_BadArgumentsRejected ==
  (/\ LhsCalled
   /\ \/ sampling.nSamples.type # "int"
      \/ \E pp \in 1..Len(sampling.paramDists) :
           sampling.paramDists[pp].type # "rv_frozen")
    => /\ sampling.status = "raised"
       /\ sampling.exc = "ValueError"
       /\ sampling.n_drawn = 0
       /\ sampling.lhs_samples = NoArray
       /\ sampling.failed_at =
            (IF sampling.nSamples.type # "int" THEN "nSamples" ELSE "paramDists")

\* lhs(['norm'], 1e3): both arguments are wrong and the failure is the one
\* of nSamples
C24_Witness ==
  /\ LhsCalled
  /\ sampling.nSamples = NSamples("float", 1000)
  /\ sampling.paramDists = <<NotADistribution>>
  /\ sampling.status = "raised" /\ sampling.failed_at = "nSamples"

\* the values of distribution dist a sample of stratum i of n can have: the
\* percent points of the probabilities of [(i-1)/n, i/n]
StratumValues(dist, i, n) ==
  {ppf(dist, (i - 1) * Resolution + g, n * Resolution) : g \in 0..Resolution}

\* column jj of the returned array
Column(jj) ==
  [ii \in 1..Len(sampling.lhs_samples.rows) |-> sampling.lhs_samples.rows[ii][jj]]

\* C30: a call of lhs that returns gives an array of nSamples rows by
\* len(paramDists) columns; in every column, before the permutation, row i
\* holds a value of stratum i, and the returned column is a rearrangement of
\* it by a bijection of the rows, so every stratum contributes exactly one
\* sample.
C30_OneSamplePerStratum ==
  (LhsCalled /\ sampling.status = "returned")
    => LET n == sampling.nSamples.value
           m == Len(sampling.paramDists)
       IN  /\ sampling.lhs_samples.shape = <<n, m>>
           /\ Len(sampling.lhs_samples.rows) = n
           /\ \A ii \in 1..n : Len(sampling.lhs_samples.rows[ii]) = m
           /\ \A jj \in 1..m :
                /\ \A i \in 1..n :
                     sampling.ppf_columns[jj][i]
                       \in StratumValues(sampling.paramDists[jj], i, n)
                /\ \E p \in Permutations(1..n) :
                     \A i \in 1..n : Column(jj)[i] = sampling.ppf_columns[jj][p[i]]

\* two columns of MaxSamples rows were returned, the first one not in the
\* order of the strata
C30_Witness ==
  /\ LhsCalled /\ sampling.status = "returned"
  /\ sampling.nSamples.value = MaxSamples
  /\ sampling.paramDists = <<Norm, Bernoulli>>
  /\ Column(1) # sampling.ppf_columns[1]
  /\ Column(2) = sampling.ppf_columns[2]

----------------------------------------------------------------------------
(* Claims about the layering of per-call options *)

\* this step is a call of solve with per-call options that reaches the strategy
StrategyEntered ==
  /\ Len(solver'.stack) = Len(solver.stack) + 1
  /\ solver'.stack[Len(solver'.stack)].tmp_given

\* C25: when solve is called with per-call options, the option set the
\* strategy sees at entry holds exactly the persistent and the per-call
\* keys, a per-call value winning over a persistent one; it is an object
\* that did not exist before the call, and, as long as the call is in
\* progress and when it has ended, the persistent option object and the
\* mapping the caller passed hold what they held at the call.
C25_OptionsLayeredOnCopy ==
  /\ [][StrategyEntered =>
          LET f == solver'.stack[Len(solver'.stack)]
              seen == solver'.heap[solver'._solver_options]
          IN  /\ DOMAIN seen = (DOMAIN f.before) \cup (DOMAIN f.tmp_options)
              /\ \A k \in DOMAIN f.tmp_options : seen[k] = f.tmp_options[k]
              /\ \A k \in (DOMAIN f.before) \ (DOMAIN f.tmp_options) :
                   seen[k] = f.before[k]
              /\ solver'._solver_options \notin DOMAIN solver.heap
              /\ solver'._solver_options \notin {f.orig_options, f.tmp_id}
              /\ f.before = solver.heap[solver._solver_options]]_vars
  /\ [](\A i \in 1..Len(solver.stack) :
          solver.stack[i].tmp_given
            => /\ solver.heap[solver.stack[i].orig_options] = solver.stack[i].before
               /\ solver.heap[solver.stack[i].tmp_id] = solver.stack[i].tmp_options)
  /\ []((solver.last.tmp_given /\ solver.last.tmp_id # 0
           /\ solver.stack = <<>>)
          => /\ solver.heap[solver.last.before_id] = solver.last.before
             /\ solver.heap[solver.last.tmp_id] = solver.last.tmp_options)

\* a call whose per-call option overrides a persistent option of the same
\* key is in progress, and its strategy has written an option
C25_Witness ==
  /\ Len(solver.stack) = 1
  /\ solver.stack[1].tmp_given /\ solver.stack[1].wrote
  /\ "k1" \in DOMAIN solver.stack[1].before
  /\ "k1" \in DOMAIN solver.stack[1].tmp_options
  /\ solver.stack[1].before["k1"] # solver.stack[1].tmp_options["k1"]
  /\ "k2" \in DOMAIN solver.heap[solver._solver_options]

----------------------------------------------------------------------------
(* Claims about _collect_scenario_tree_data_for_client *)

\* this step is a call of _collect_scenario_tree_data_for_client through
\* invoke_method or _invoke_method_impl that reaches the method
CollectCalled ==
  /\ Invoked
  /\ inv'.last.op \in {"invoke_method", "_invoke_method_impl"}
  /\ inv'.last.name = "_collect_scenario_tree_data_for_client"
  /\ inv'.last.n_exec = 1

NodeDataKeys ==
  {"_variable_ids", "_standard_variable_ids", "_variable_indices", "_integer",
   "_binary", "_semicontinuous"}

\* C26: a call of _collect_scenario_tree_data_for_client leaves the worker,
\* its tree, its instances and their objective senses as they were, whether
\* it returns or raises; when it returns, the keys of 'nodes' are exactly
\* the requested node names and the keys of 'scenarios' exactly the
\* requested scenario names, every node entry holds the six identity sets
\* and no derived-variable bookkeeping, and every scenario entry the
\* objective's name and sense.
C26_ReadOnlyProjection ==
  [][CollectCalled =>
       /\ worker' = worker
       /\ sense' = sense
       /\ inv'.last.status = "returned" =>
            LET data == inv'.last.data
                req == inv'.last.method_args
            IN  /\ DOMAIN data = {"nodes", "scenarios"}
                /\ DOMAIN data.nodes = {req.nodes[i] : i \in 1..Len(req.nodes)}
                /\ DOMAIN data.scenarios =
                     {req.scenarios[i] : i \in 1..Len(req.scenarios)}
                /\ \A n \in DOMAIN data.nodes :
                     /\ DOMAIN data.nodes[n] = NodeDataKeys
                     /\ \A k \in NodeDataKeys : data.nodes[n][k].of = n
                /\ \A sc \in DOMAIN data.scenarios :
                     /\ DOMAIN data.scenarios[sc] = {"_objective_name", "_objective_sense"}
                     /\ data.scenarios[sc]._objective_name.of = sc
                     /\ data.scenarios[sc]._objective_sense = sense[sc]]_vars

\* the data of two nodes and two scenarios of the worker's tree were returned
C26_Witness ==
  /\ LastIs({"invoke_method", "_invoke_method_impl"})
  /\ inv.last.name = "_collect_scenario_tree_data_for_client"
  /\ inv.last.status = "returned"
  /\ DOMAIN inv.last.data.nodes = {"R", "A"}
  /\ DOMAIN inv.last.data.scenarios = {"s1", "s3"}
  /\ worker[1]._scenario_tree.built

----------------------------------------------------------------------------
(* Claims about the communicators Split is called on *)

\* C27: every Split a worker has called during _init was called on the
\* communicator its mapping holds under the parent of the node, a
\* communicator of a group the worker is a member of; the lookup of the
\* parent's communicator never fails; and a worker whose _init has returned
\* has called no Split, join or exclude, for an interior node whose parent
\* is not a key of its mapping.
C27_SplitOnlyOnHeldCommunicators ==
  \A w \in Workers :
    /\ call[w].outcome # "KeyError"
    /\ \A i \in 1..Len(call[w].splits) :
         LET e == call[w].splits[i]
         IN  /\ Parent[e.node] \in DOMAIN worker[w].mpi_comm_tree
             /\ e.comm = worker[w].mpi_comm_tree[Parent[e.node]]
             /\ e.comm \in DOMAIN group
             /\ w \in group[e.comm]
    /\ InitDoneMPI(w) =>
         \A n \in InteriorSet :
           Parent[n] \notin DOMAIN worker[w].mpi_comm_tree
             => \A i \in 1..Len(call[w].splits) : call[w].splits[i].node # n

\* a worker was excluded from the group of an interior node with children:
\* it has called Split with MPI.UNDEFINED for that node and no Split for the
\* children of the node
C27_Witness ==
  \E w \in Workers, n \in InteriorSet :
    /\ InitDoneMPI(w)
    /\ Parent[n] \in InteriorSet
    /\ Parent[n] \notin DOMAIN worker[w].mpi_comm_tree
    /\ \E i \in 1..Len(call[w].splits) :
         /\ call[w].splits[i].node = Parent[n]
         /\ call[w].splits[i].key = UNDEFINED
    /\ \A i \in 1..Len(call[w].splits) : call[w].splits[i].node # n

----------------------------------------------------------------------------
(* Claims about nested calls of solve *)

\* this step ends a call of solve with per-call options that the strategy of
\* a call with per-call options made
InnerEnded ==
  /\ SolveEnded
  /\ solver'.last.depth = 2 /\ solver'.last.tmp_given
  /\ solver.stack # <<>> /\ solver.stack[1].tmp_given

\* this step ends a call of solve with per-call options whose strategy has
\* called solve with per-call options
OuterEnded ==
  /\ SolveEnded
  /\ solver'.last.depth = 1 /\ solver'.last.tmp_given
  /\ solver'.last.nested >= 1

\* C28: when an inner call with per-call options ends, however it ends, the
\* options installed hold what the outer call's layered options held when
\* the inner call began, and, unless the inner call failed while layering
\* its options (line 84, outside the try statement), the object installed
\* is the outer call's layered object itself and never the persistent one;
\* the persistent options are untouched.  When the outer call ends, however
\* it and the inner call ended, the persistent object is installed and holds
\* what it held when the outer call began.
C28_OverridesNest ==
  /\ [][InnerEnded =>
          /\ solver'.heap[solver'._solver_options] = solver'.last.before
          /\ solver'.last.failed_in # "options"
               => solver'._solver_options = solver'.last.before_id
          /\ solver'._solver_options # solver.stack[1].orig_options
          /\ solver'.heap[solver.stack[1].orig_options] = solver.stack[1].before]_vars
  /\ [][OuterEnded =>
          /\ solver'._solver_options = solver'.last.before_id
          /\ solver'.heap[solver'._solver_options] = solver'.last.before
          /\ solver'.stack = <<>>]_vars

\* the persistent options are installed again after an outer call that
\* returned, its strategy having written an option and having made an inner
\* call with per-call options
C28_Witness ==
  /\ solver.stack = <<>> /\ solver.n_done = 2
  /\ solver.last.depth = 1 /\ solver.last.tmp_given /\ solver.last.nested = 1
  /\ solver.last.status = "returned"
  /\ solver.last.tmp_options # NoOptions
  /\ solver.last.seen # Layered(solver.last.before, solver.last.tmp_options)
  /\ solver._solver_options = solver.last.before_id
  /\ solver.heap[solver._solver_options] = solver.last.before

----------------------------------------------------------------------------
(* Claims about repeated teardown *)

\* this step is a call of _close_impl by worker w
CloseCalled(w) == closing'[w].n_close = closing[w].n_close + 1

\* the number of times worker w has called Free on communicator c
TimesFreed(cl, c) == IF c \in DOMAIN cl.freed THEN cl.freed[c] ELSE 0

====
